---- MODULE Spec2Model ----
(***************************************************************************)
(* Verification model of the per-camera recognition pipeline of the        *)
(* CCTV face-recognition attendance service (src/ai/app).                  *)
(*                                                                         *)
(* Parts:                                                                  *)
(*   1. GPUArbiter            (vision/gpu_arbiter.py)                      *)
(*   2. voice-event log       (runtimes/attendance_runtime.py)             *)
(*   3. attendance pipeline   (process_frame, Recognizer.update_tracks,    *)
(*                             AdaptiveScheduler, AttendanceDebouncer,     *)
(*                             DBWriter)                                   *)
(*                                                                         *)
(* One specification per subsystem: SpecArbiter, SpecVoice, SpecAttendance *)
(* (one camera, one track), SpecTwoTracks (one camera, two tracks) and     *)
(* SpecTwoCameras (two concurrent workers sharing the AttendanceDebouncer  *)
(* and the DBWriter).                                                      *)
(*                                                                         *)
(* Times are integers in units of 1/100 s, similarities in units of 1/100. *)
(***************************************************************************)
EXTENDS Integers, Sequences, FiniteSets, TLC

(***************************************************************************)
(* Generic helpers                                                         *)
(***************************************************************************)
Max2(a, b) == IF a >= b THEN a ELSE b

Min2(a, b) == IF a <= b THEN a ELSE b

SetMax(S) == CHOOSE x \in S : \A y \in S : y <= x

RECURSIVE SeqSum(_)
SeqSum(s) == IF s = <<>> THEN 0 ELSE Head(s) + SeqSum(Tail(s))

Range(s) == {s[i] : i \in DOMAIN s}

NoDup(s) == \A i, j \in DOMAIN s : i # j => s[i] # s[j]

IsPrefix(s, t) == Len(s) <= Len(t) /\ \A i \in DOMAIN s : s[i] = t[i]

RECURSIVE SumOver(_, _)
SumOver(f, S) ==
    IF S = {} THEN 0
    ELSE LET x == CHOOSE y \in S : TRUE IN f[x] + SumOver(f, S \ {x})

LastK(s, k) == IF Len(s) <= k THEN s ELSE SubSeq(s, Len(s) - k + 1, Len(s))

(***************************************************************************)
(* Bounds of the model                                                     *)
(***************************************************************************)
\* submit calls explored for the arbiter, all cameras together
MaxSubmit == 6

\* voice events pushed per company
MaxPush == 4

\* get_voice_events calls made by the reader
MaxReads == 2

\* frames processed per camera
MaxFrames == 6

\* frames per camera and tracks per camera where two tracks or two cameras run
PairFrames == 5

PairTracks == 2

\* cap of Track.stable_id_hits (the decisions only ask whether it reached
\* stable_id_confirmations)
MaxHits == 5

\* tracks alive at once on a camera
MaxTracks == 1

\* recognition runs on the track of the recognizer scene
MaxRuns == 4

\* apply_detections calls on the tracker scene, and detections per call
MaxDetCalls == 2

MaxDets == 2

\* jobs offered to the DB writer
MaxJobs == 4

\* calls on the scheduler of the scheduler scene
MaxSchedCalls == 4

\* enqueue calls on the ERPPushQueue
MaxErpJobs == 3

\* viewers registered at a time with the StreamClientManager
MaxViewers == 3

\* marks the frame loop decides in the scene of the stream types
MaxMarks == 2

\* frames the frame loop submits in the scene of the result ages, and the time
\* the scene lasts
AgeFrames == 2

AgeHorizon == 100

\* rows of the gallery
MaxGallery == 2

\* ERP jobs and DB writer jobs queued in the scene of the shutdown
ShutdownErpJobs == 2

ShutdownJobs == 1

\* recognition threads started and connections made in the scene of the viewers
MaxThreads == 3

MaxConnects == 3

\* updates of the MotionGate
MaxMotionCalls == 4

\* jobs and frames of the scene that follows the two workers through failures
WorkerJobs == 2

WorkerFrames == 3

\* The code reads time.time() and uses it only in differences with stored
\* timestamps, and 0.0 as "never". The model keeps the current time at Now and,
\* when time passes, moves every stored timestamp back instead; a timestamp
\* older than Horizon is kept at Now - Horizon (all windows are shorter).
Now == 3000

Horizon == 1100

(***************************************************************************)
(* Variables                                                               *)
(***************************************************************************)
VARIABLES
    \* ---- GPUArbiter ----
    frames,          \* _queues[cid].frames : sequence of submitted frames (oldest first)
    dropped,         \* _queues[cid].dropped
    pending_rr,      \* _pending_rr (FIFO of camera ids)
    pending_set,     \* _pending_set
    results,         \* _results[cid] : DetectionResult or NoResult
    seq,             \* _seq[cid]
    worker,          \* position of the arbiter thread in _loop and its locals
    last_det_seq,    \* CameraScanState.last_det_seq of the consumer (process_frame)
    \* history of the arbiter run
    submitted,       \* number of submit calls per camera
    picked,          \* number of frames taken for detection per camera
    completed,       \* number of detections whose result was stored per camera
    detected,        \* frames handed to detect_fn per camera
    pickup_dropped,  \* frames discarded by the last pickup of a camera
    rr_window,       \* cameras of the latest pickups made while every camera had a frame queued
    \* ---- voice-event log ----
    voice_seq,       \* _voice_seq[company_key]
    voice_events,    \* _voice_events[company_key] : sequence of event seq numbers
    voice_lock,      \* holder of _voice_lock (the lock of _voice_cv), or "none"
    voice_pc,        \* position of each publishing thread in push_voice_event
    voice_local,     \* locals of each publishing thread: company_key, seq
    voice_returned,  \* seq values returned by push_voice_event, in return order
    reader,          \* the long-polling thread inside get_voice_events: position and locals
    reader_result,   \* what the latest get_voice_events call returned
    reader_calls,    \* number of get_voice_events calls made
    \* ---- attendance pipeline ----
    att_pc,          \* per camera: position of its recognition worker inside process_frame
    frame_now,       \* per camera: `now` of the frame being processed (line 921)
    frame_count,     \* per camera: CameraScanState.frames_total
    tracks,          \* per camera: TrackerManager._tracks, by slot
    sched,           \* per camera: AdaptiveScheduler.state
    last_marked,     \* AttendanceDebouncer._last_marked, by employee of the company
    dbq,             \* DBWriter._q
    enq_last2,       \* per employee: times of the last two successful DBWriter.enqueue calls
    decision,        \* per camera: what the latest consider call saw and returned
    last_run,        \* per camera: the latest recognition run of the frame in progress
    \* ---- Recognizer.update_tracks on one track, run after run ----
    rec_track,       \* the Track
    rec_sched,       \* AdaptiveScheduler.state
    rec_call,        \* the latest run: the track it found, its inputs
    rec_confirmed_ts,\* time of the latest run that matched the identity the track left with
    rec_runs,        \* number of runs made
    \* ---- TrackerManager of one camera ----
    trk_tracks,      \* _tracks : track_id -> Track (bbox, det_misses, identity fields)
    trk_next_id,     \* _next_id
    trk_used_ids,    \* every track_id handed out so far
    trk_call,        \* the latest apply_detections call: what it found, matched and spawned
    trk_calls,       \* number of apply_detections calls made
    \* ---- DBWriter with its worker thread and a caller of stop ----
    wr_q,            \* _q : queued jobs; 0 is the None sentinel
    wr_stop,         \* _stop
    wr_pc,           \* position of the worker thread in _loop
    wr_job,          \* the job the worker took from the queue
    wr_accepted,     \* jobs for which enqueue returned True, in order
    wr_written,      \* jobs passed to write_fn, in order
    stop_pc,         \* position of the thread that calls stop
    wr_submitted,    \* number of enqueue calls made
    wr_call,         \* the latest enqueue call: its job, the queue it found, what it returned
    wr_failed,       \* jobs whose write_fn call raised
    \* ---- AdaptiveScheduler of one camera, call after call ----
    sch_state,       \* AdaptiveScheduler.state
    sch_call,        \* the latest call: update or force_burst, the state it found, its inputs
    sch_calls,       \* number of calls made
    \* ---- ERPPushQueue with its worker thread ----
    erp_q,           \* q : queued ERPPushJobs
    erp_pc,          \* position of the worker thread in _run
    erp_job,         \* the job the worker took from the queue
    erp_tries,       \* iterations of the retry loop made for that job
    erp_last_err,    \* last_err is set
    erp_submitted,   \* number of enqueue calls made
    erp_accepted,    \* jobs for which enqueue returned True, in order
    erp_handed,      \* jobs the worker took from the queue, in order
    erp_posts,       \* per job: outcomes of its manual_attendance calls, in order
    erp_errors,      \* per job: number of on_error calls
    erp_call,        \* the latest enqueue call: its job, the queue it found, what it returned
    \* ---- StreamClientManager and the per-camera switches of AttendanceRuntime ----
    scm_clients,     \* _rec_stream_clients : camera -> count (0: no entry)
    scm_mode_counts, \* _rec_stream_mode_counts : camera -> stream type -> count (0: no entry)
    scm_viewers,     \* per camera and stream type as given: inc calls not yet matched by a dec
    scm_call,        \* the latest inc or dec call: its camera, 0 calls so far: "none"
    rt_enabled,      \* _enabled_for_attendance : camera -> "on" / "off", "unset": no entry
    rt_stream_type,  \* _stream_type_by_camera : camera -> stream type, "unset": no entry
    \* ---- marks on their way from the frame loop to the backend ----
    mk_erp_on,       \* erp_queue is not None (ERP_BASE_URL is set)
    mk_decided,      \* per job: the camera's stream type when the frame loop enqueued it
    mk_backend,      \* create_attendance calls that returned: job and event_type, in order
    mk_erp,          \* per job: number of ERPPushJobs accepted for it
    mk_voiced,       \* per job: number of voice events published for it
    \* ---- age of the detection results the frame loop applies ----
    age_now,         \* time.time() as the frame loop reads it
    age_ts,          \* per submitted frame of the camera: the ts it was submitted with
    age_applied,     \* results process_frame applied to the tracker: seq and age, in order
    \* ---- AdaptiveScheduler.should_run_recognition, call after call ----
    srr_call,        \* the last call: scheduler mode, track, result
    \* ---- the gallery match, call after call ----
    mt_call,         \* the last _match_embedding call: gallery, embedding, result
    \* ---- MotionGate of one camera ----
    mg_state,        \* MotionGate.state : MotionState
    mg_prev,         \* _prev_gray is not None
    mg_now,          \* `now` of the last update
    mg_call,         \* the last update: state before, score, result
    mg_calls,        \* updates made
    \* ---- RecognitionWorker of one camera and the callers of start and stop ----
    rw_running,      \* _running[camera_id]
    rw_entry,        \* _threads[camera_id] : a thread, 0: no entry
    rw_thr,          \* per thread ever started: its position in _loop
    rw_spawned,      \* threads started so far
    rw_pc,           \* per viewer: its position in mjpeg_generator_recognition
    rw_joined,       \* per viewer: local t of its stop call
    rw_connects,     \* connections made so far
    \* ---- ServiceContainer.shutdown ----
    sd_pc,           \* position of the caller in shutdown
    sd_order         \* the parts shutdown has gone through, in order

arbVars == <<frames, dropped, pending_rr, pending_set, results, seq, worker,
             last_det_seq, submitted, picked, completed, detected, pickup_dropped,
             rr_window>>

voiceVars == <<voice_seq, voice_events, voice_lock, voice_pc, voice_local, voice_returned,
               reader, reader_result, reader_calls>>

attVars == <<att_pc, frame_now, frame_count, tracks, sched, last_marked, dbq,
             enq_last2, decision, last_run>>

recVars == <<rec_track, rec_sched, rec_call, rec_confirmed_ts, rec_runs>>

pipelineVars == <<arbVars, voiceVars, attVars>>

trkVars == <<trk_tracks, trk_next_id, trk_used_ids, trk_call, trk_calls>>

wrVars == <<wr_q, wr_stop, wr_pc, wr_job, wr_accepted, wr_written, stop_pc,
            wr_submitted, wr_call, wr_failed>>

schVars == <<sch_state, sch_call, sch_calls>>

unitVars == <<recVars, trkVars, wrVars, schVars>>

erpVars == <<erp_q, erp_pc, erp_job, erp_tries, erp_last_err, erp_submitted,
             erp_accepted, erp_handed, erp_posts, erp_errors, erp_call>>

scmVars == <<scm_clients, scm_mode_counts, scm_viewers, scm_call, rt_enabled, rt_stream_type>>

mkVars == <<mk_erp_on, mk_decided, mk_backend, mk_erp, mk_voiced>>

serviceVars == <<erpVars, scmVars, mkVars>>

ageVars == <<age_now, age_ts, age_applied>>

motionVars == <<mg_state, mg_prev, mg_now, mg_call, mg_calls>>

frameVars == <<ageVars, srr_call, mt_call, motionVars>>

rwVars == <<rw_running, rw_entry, rw_thr, rw_spawned, rw_pc, rw_joined, rw_connects>>

sdVars == <<sd_pc, sd_order>>

lifeVars == <<rwVars, sdVars>>

(***************************************************************************)
(* 1. GPUArbiter                                                           *)
(***************************************************************************)
ArbCameras == {"camA", "camB", "camC"}

NoResult == [seq |-> 0, frame |-> 0, dets |-> 0, raised |-> FALSE]

\* Config.queue_size of the checked configuration (GPU_QUEUE_SIZE=2; the default
\* is 3), passed to GPUArbiter(queue_size=...)
queue_size == 2

RECURSIVE EvictUncounted(_, _)
EvictUncounted(q, d) ==
    IF Len(q) >= queue_size THEN EvictUncounted(Tail(q), d) ELSE <<q, d>>

\* submit, lines 76-78: evict the oldest frames while the ring is full
RECURSIVE EvictOldest(_, _)
EvictOldest(q, d) ==
    IF Len(q) >= queue_size THEN EvictOldest(Tail(q), d + 1) ELSE <<q, d>>

PickOldestFrame(q) == q[1]

\* frame a pickup hands to detect_fn: q.frames.pop() takes the right end
PickFrame(q) == q[Len(q)]

MarkPendingFront(rr, cid) == <<cid>> \o rr

\* submit, line 83: a camera that becomes pending joins the tail of the FIFO
MarkPending(rr, cid) == Append(rr, cid)

KeepPending(set, cid) == set

\* _loop, line 108: the camera popped from the FIFO leaves the pending set
DiscardPending(set, cid) == set \ {cid}

SameSeq(s) == s

\* _loop, line 127: seq of the next result of a camera
NextSeq(s) == s + 1

ArbInit ==
    /\ frames = [c \in ArbCameras |-> <<>>]
    /\ dropped = [c \in ArbCameras |-> 0]
    /\ pending_rr = <<>>
    /\ pending_set = {}
    /\ results = [c \in ArbCameras |-> NoResult]
    /\ seq = [c \in ArbCameras |-> 0]
    /\ worker = [pc |-> "wait", cid |-> "none", frame |-> 0]
    /\ last_det_seq = [c \in ArbCameras |-> 0]
    /\ submitted = [c \in ArbCameras |-> 0]
    /\ picked = [c \in ArbCameras |-> 0]
    /\ completed = [c \in ArbCameras |-> 0]
    /\ detected = [c \in ArbCameras |-> {}]
    /\ pickup_dropped = [c \in ArbCameras |-> 0]
    /\ rr_window = <<>>

\* GPUArbiter.submit (whole body runs under the lock). The frame is named by
\* its submission number for the camera.
submit(cid) ==
    /\ SumOver(submitted, ArbCameras) < MaxSubmit
    /\ LET id == submitted[cid] + 1
           ev == EvictOldest(frames[cid], dropped[cid])
       IN /\ frames' = [frames EXCEPT ![cid] = Append(ev[1], id)]
          /\ dropped' = [dropped EXCEPT ![cid] = ev[2]]
          /\ submitted' = [submitted EXCEPT ![cid] = id]
    /\ IF cid \notin pending_set
          THEN /\ pending_set' = pending_set \cup {cid}
               /\ pending_rr' = MarkPending(pending_rr, cid)
          ELSE UNCHANGED <<pending_set, pending_rr>>
    /\ UNCHANGED <<results, seq, worker, last_det_seq, picked, completed,
                   detected, pickup_dropped, rr_window>>

\* GPUArbiter._loop, first locked section (lines 101-118): pop the next pending
\* camera, take its newest frame, count and discard the rest.
LoopPickup ==
    /\ worker.pc = "wait"
    /\ pending_rr # <<>>
    /\ LET cid == Head(pending_rr)
           q == frames[cid]
           allPending == \A c \in ArbCameras : frames[c] # <<>>
       IN /\ pending_rr' = Tail(pending_rr)
          /\ pending_set' = DiscardPending(pending_set, cid)
          /\ IF q = <<>>
                THEN UNCHANGED <<frames, dropped, worker, picked, detected,
                                 pickup_dropped, rr_window>>
                ELSE /\ worker' = [pc |-> "detect", cid |-> cid, frame |-> PickFrame(q)]
                     /\ dropped' = [dropped EXCEPT ![cid] = @ + (Len(q) - 1)]
                     /\ frames' = [frames EXCEPT ![cid] = <<>>]
                     /\ picked' = [picked EXCEPT ![cid] = @ + 1]
                     /\ detected' = [detected EXCEPT ![cid] = @ \cup {PickFrame(q)}]
                     /\ pickup_dropped' = [pickup_dropped EXCEPT ![cid] = Len(q) - 1]
                     /\ rr_window' = IF allPending
                                        THEN LastK(Append(rr_window, cid),
                                                   Cardinality(ArbCameras))
                                        ELSE <<>>
    /\ UNCHANGED <<results, seq, last_det_seq, submitted, completed>>

\* number of faces detect_fn finds in a frame when it returns
FaceCounts == {0, 1}

\* _loop lines 120-124: a detect_fn that raises is logged and yields dets = []
DetectOutcome(raised, faces) == IF raised THEN 0 ELSE faces

\* GPUArbiter._loop, detect_fn call and second locked section (lines 120-134).
\* A detect_fn that raises yields dets = [] and the result is stored all the same.
LoopStore(raised, faces) ==
    /\ worker.pc = "detect"
    /\ LET cid == worker.cid
           s == NextSeq(seq[cid])
       IN /\ seq' = [seq EXCEPT ![cid] = s]
          /\ results' = [results EXCEPT ![cid] =
                            [seq |-> s, frame |-> worker.frame,
                             dets |-> DetectOutcome(raised, faces), raised |-> raised]]
          /\ completed' = [completed EXCEPT ![cid] = @ + 1]
          /\ IF frames[cid] # <<>> /\ cid \notin pending_set
                THEN /\ pending_set' = pending_set \cup {cid}
                     /\ pending_rr' = Append(pending_rr, cid)
                ELSE UNCHANGED <<pending_set, pending_rr>>
    /\ worker' = [pc |-> "wait", cid |-> "none", frame |-> 0]
    /\ UNCHANGED <<frames, dropped, last_det_seq, submitted, picked, detected,
                   pickup_dropped, rr_window>>

\* process_frame, lines 944-947: the frame loop reads get_latest_result and
\* remembers the seq it applied.
ConsumeResult(cid) ==
    /\ results[cid] # NoResult
    /\ results[cid].seq # last_det_seq[cid]
    /\ last_det_seq' = [last_det_seq EXCEPT ![cid] = results[cid].seq]
    /\ UNCHANGED <<frames, dropped, pending_rr, pending_set, results, seq, worker,
                   submitted, picked, completed, detected, pickup_dropped, rr_window>>

(***************************************************************************)
(* 2. Voice-event log                                                      *)
(***************************************************************************)
Companies == {"acme", "globex", "__default__"}

\* threads that publish: the DB writer worker and one more caller
VoiceThreads == {"t1", "t2"}

\* ATT_VOICE_MAX_EVENTS of the checked configuration (the default is 500)
voice_max_events == 2

TrimBucketTail(bucket, n) == SubSeq(bucket, 1, n)

\* bucket[-n:] of push_voice_event line 529
TrimBucket(bucket, n) == SubSeq(bucket, Len(bucket) - n + 1, Len(bucket))

\* `with self._voice_cv:` can be entered when no thread holds the lock
VoiceLockFree(owner) == owner = "none"

\* ---- get_voice_events: the long-polling reader ----
ReaderId == "r1"

IdleReader ==
    [pc |-> "idle", key |-> "none", after_seq |-> 0, limit |-> 0, wait_ms |-> 0,
     expired |-> FALSE, waited |-> FALSE]

NotReturned == [returned |-> FALSE]

\* after_seq values a reader passes: nothing seen yet, or the seq it saw last
AfterSeqs == 0..2

\* limit arguments: 0 (falsy, stands for the default 50), 1, 2
Limits == 0..2

\* wait_ms arguments: no long-poll, or a long-poll of one second
WaitMs == {0, 1000}

\* line 543: limit = max(1, min(int(limit or 50), 200))
ClampLimit(limit) == Max2(1, Min2(IF limit = 0 THEN 50 ELSE limit, 200))

\* line 544: wait_ms = max(0, min(int(wait_ms or 0), 300_000))
ClampWait(wait_ms) == Max2(0, Min2(wait_ms, 300000))

RECURSIVE NewerThan(_, _)
\* line 557: [e for e in bucket if e.seq > after_seq]
NewerThan(bucket, after_seq) ==
    IF bucket = <<>> THEN <<>>
    ELSE IF Head(bucket) > after_seq
         THEN <<Head(bucket)>> \o NewerThan(Tail(bucket), after_seq)
         ELSE NewerThan(Tail(bucket), after_seq)

\* items[:limit] of line 558
FirstItems(items, limit) == SubSeq(items, 1, Min2(Len(items), limit))

\* a push that wakes nobody
NotifyNobody(r) == r

\* Condition.notify_all (line 530): every thread inside wait() is woken
NotifyAll(r) == IF r.pc = "waiting" THEN [r EXCEPT !.pc = "woken"] ELSE r

\* lines 541-548: clamp the arguments, compute the deadline, enter the critical section
GetAcquire(company_key, after_seq, limit, wait_ms) ==
    /\ reader.pc = "idle"
    /\ reader_calls < MaxReads
    /\ VoiceLockFree(voice_lock)
    /\ voice_lock' = ReaderId
    /\ reader' = [pc |-> "check", key |-> company_key, after_seq |-> after_seq,
                  limit |-> ClampLimit(limit), wait_ms |-> ClampWait(wait_ms),
                  expired |-> FALSE, waited |-> FALSE]
    /\ reader_calls' = reader_calls + 1
    /\ reader_result' = NotReturned
    /\ UNCHANGED <<voice_seq, voice_events, voice_pc, voice_local, voice_returned>>

\* the clock reaches the deadline of the call in progress
DeadlineElapses ==
    /\ reader.pc # "idle"
    /\ reader.wait_ms > 0
    /\ ~reader.expired
    /\ reader' = [reader EXCEPT !.expired = TRUE]
    /\ UNCHANGED <<voice_seq, voice_events, voice_lock, voice_pc, voice_local,
                   voice_returned, reader_result, reader_calls>>

\* lines 549-553: the loop test; wait() releases the lock and sleeps
GetCheck ==
    /\ reader.pc = "check"
    /\ IF reader.wait_ms > 0 /\ voice_seq[reader.key] <= reader.after_seq
          /\ ~reader.expired
          THEN /\ reader' = [reader EXCEPT !.pc = "waiting", !.waited = TRUE]
               /\ voice_lock' = "none"
          ELSE /\ reader' = [reader EXCEPT !.pc = "read"]
               /\ UNCHANGED voice_lock
    /\ UNCHANGED <<voice_seq, voice_events, voice_pc, voice_local, voice_returned,
                   reader_result, reader_calls>>

\* wait(timeout=remaining) ends without a notification when the deadline is reached
GetTimeout ==
    /\ reader.pc = "waiting"
    /\ reader.expired
    /\ reader' = [reader EXCEPT !.pc = "woken"]
    /\ UNCHANGED <<voice_seq, voice_events, voice_lock, voice_pc, voice_local,
                   voice_returned, reader_result, reader_calls>>

\* wait() re-acquires the lock before it returns to the loop test
GetReacquire ==
    /\ reader.pc = "woken"
    /\ VoiceLockFree(voice_lock)
    /\ voice_lock' = ReaderId
    /\ reader' = [reader EXCEPT !.pc = "check"]
    /\ UNCHANGED <<voice_seq, voice_events, voice_pc, voice_local, voice_returned,
                   reader_result, reader_calls>>

\* lines 555-558: read latest_seq and the bucket, filter, leave the critical section
GetReturn ==
    /\ reader.pc = "read"
    /\ reader_result' =
          [returned |-> TRUE, key |-> reader.key, after_seq |-> reader.after_seq,
           limit |-> reader.limit, wait_ms |-> reader.wait_ms,
           expired |-> reader.expired, waited |-> reader.waited,
           latest_seq |-> voice_seq[reader.key],
           events |-> FirstItems(NewerThan(voice_events[reader.key], reader.after_seq),
                                 reader.limit)]
    /\ voice_lock' = "none"
    /\ reader' = IdleReader
    /\ UNCHANGED <<voice_seq, voice_events, voice_pc, voice_local, voice_returned,
                   reader_calls>>

VoiceInit ==
    /\ voice_seq = [k \in Companies |-> 0]
    /\ voice_events = [k \in Companies |-> <<>>]
    /\ voice_lock = "none"
    /\ voice_pc = [t \in VoiceThreads |-> "idle"]
    /\ voice_local = [t \in VoiceThreads |-> [key |-> "none", seq |-> 0]]
    /\ voice_returned = [k \in Companies |-> <<>>]
    /\ reader = IdleReader
    /\ reader_result = NotReturned
    /\ reader_calls = 0

\* push_voice_event line 512: enter the critical section
PushAcquire(t, company_key) ==
    /\ voice_pc[t] = "idle"
    /\ voice_seq[company_key] < MaxPush
    /\ VoiceLockFree(voice_lock)
    /\ voice_lock' = t
    /\ voice_pc' = [voice_pc EXCEPT ![t] = "locked"]
    /\ voice_local' = [voice_local EXCEPT ![t] = [key |-> company_key, seq |-> 0]]
    /\ UNCHANGED <<voice_seq, voice_events, voice_returned, reader, reader_result,
                   reader_calls>>

\* push_voice_event line 513: seq = self._voice_seq.get(company_key, 0) + 1
PushReadSeq(t) ==
    /\ voice_pc[t] = "locked"
    /\ voice_local' = [voice_local EXCEPT ![t].seq = voice_seq[voice_local[t].key] + 1]
    /\ voice_pc' = [voice_pc EXCEPT ![t] = "read"]
    /\ UNCHANGED <<voice_seq, voice_events, voice_lock, voice_returned, reader,
                   reader_result, reader_calls>>

\* push_voice_event lines 514-529: store seq, append the event, trim the bucket
PushAppend(t) ==
    /\ voice_pc[t] = "read"
    /\ LET k == voice_local[t].key
           s == voice_local[t].seq
           bucket == Append(voice_events[k], s)
       IN /\ voice_seq' = [voice_seq EXCEPT ![k] = s]
          /\ voice_events' = [voice_events EXCEPT ![k] =
                                IF voice_max_events > 0 /\ Len(bucket) > voice_max_events
                                   THEN TrimBucket(bucket, voice_max_events)
                                   ELSE bucket]
    /\ voice_pc' = [voice_pc EXCEPT ![t] = "appended"]
    /\ UNCHANGED <<voice_lock, voice_local, voice_returned, reader, reader_result,
                   reader_calls>>

\* push_voice_event lines 530-531: notify, return seq, leave the critical section
PushReturn(t) ==
    /\ voice_pc[t] = "appended"
    /\ voice_returned' = [voice_returned EXCEPT ![voice_local[t].key] =
                            Append(@, voice_local[t].seq)]
    /\ voice_lock' = IF voice_lock = t THEN "none" ELSE voice_lock
    /\ voice_pc' = [voice_pc EXCEPT ![t] = "idle"]
    /\ reader' = NotifyAll(reader)
    /\ UNCHANGED <<voice_seq, voice_events, voice_local, reader_result, reader_calls>>

(***************************************************************************)
(* 3. Attendance pipeline of one camera                                    *)
(***************************************************************************)
\* ---- Config defaults (vision/pipeline_config.py), times in 1/100 s ----
idle_seconds == 200

burst_seconds == 350

\* checked configuration: EMBED_REFRESH_SECONDS=5.0 (the default is 0.25)
embed_refresh_seconds == 500

unknown_burst_after_seconds == 60

similarity_threshold == 35

borderline_margin == 5

attendance_debounce_seconds == 1000

stable_id_confirmations == 3

identity_hold_seconds == 150

attendance_max_embed_age_seconds == 90

attendance_min_identity_age_seconds == 35

strict_similarity_threshold == 50

verification_samples == 3

\* AdaptiveScheduler.should_run_recognition: max(0.05, 1 / detection_fps_burst)
forced_min_period == 5

\* AttendanceDebouncer._step_verification: the 2.0 added to burst_seconds
verify_timeout_extra == 200

\* Recognizer.update_tracks: now + 0.45 while an identity is held
hold_recheck_window == 45

\* TrackerManager.apply_detections: now + 0.8 after a cleared identity
reacquire_window == 80

\* process_frame: now + 0.35 after a detection result was applied
detection_recheck_window == 35

\* Config.verification_required_avg_similarity
verification_required_avg_similarity == similarity_threshold + borderline_margin

\* employees of the gallery of the camera's company
Employees == {"e42", "e99"}

NoId == "none"

\* outcome of one embed + match of a track: no embedding, a best match below
\* every threshold (0.20), or an employee matched above every threshold (0.80)
RecOutcomes ==
    {[emb |-> FALSE, id |-> NoId, score |-> 0]}
    \cup {[emb |-> TRUE, id |-> NoId, score |-> 20]}
    \cup [emb : {TRUE}, id : Employees, score : {80}]

\* Track.last_known_bbox: None, or the box of the track at its last confirmed match
NoBox == "none"

KnownBox == "bbox"

\* tracker_manager.Track with its dataclass defaults (the geometry is left out)
NewTrack(now_) ==
    [person_id |-> NoId, similarity |-> 0, stable_id_hits |-> 0,
     last_embed_ts |-> 0, unknown_since_ts |-> 0, last_identity_change_ts |-> 0,
     force_recognition_until_ts |-> 0, last_known_ts |-> 0,
     last_known_bbox |-> NoBox,
     verify_target_id |-> NoId, verify_samples |-> <<>>,
     verify_started_ts |-> 0, verify_last_embed_ts |-> 0]

\* ---- AdaptiveScheduler ----
SchedulerInit(now_) == [mode |-> "idle", last_activity_ts |-> now_, burst_until_ts |-> 0]

\* AdaptiveScheduler.force_burst
force_burst(st, now_) ==
    [st EXCEPT !.burst_until_ts = Max2(@, now_ + burst_seconds), !.mode = "burst"]

\* an update that drops to IDLE as soon as no activity is reported
SchedulerUpdateNoGrace(st, motion_active, tracks_present, new_track, now_) ==
    LET s1 == IF new_track THEN force_burst(st, now_) ELSE st
        active == motion_active \/ tracks_present
        s2 == IF active THEN [s1 EXCEPT !.last_activity_ts = now_] ELSE s1
    IN IF now_ < s2.burst_until_ts
          THEN [s2 EXCEPT !.mode = "burst"]
          ELSE [s2 EXCEPT !.mode = IF active THEN "normal" ELSE "idle"]

\* AdaptiveScheduler.update (enrollment_mode = False)
SchedulerUpdate(st, motion_active, tracks_present, new_track, now_) ==
    LET s1 == IF new_track THEN force_burst(st, now_) ELSE st
        active == motion_active \/ tracks_present
        s2 == IF active THEN [s1 EXCEPT !.last_activity_ts = now_] ELSE s1
        desired == IF active THEN "normal"
                   ELSE IF (now_ - s2.last_activity_ts) < idle_seconds THEN "normal"
                   ELSE "idle"
    IN IF now_ < s2.burst_until_ts
          THEN [s2 EXCEPT !.mode = "burst"]
          ELSE [s2 EXCEPT !.mode = desired]

\* AdaptiveScheduler.should_run_recognition
should_run_recognition(st, tr, now_) ==
    IF st.mode = "idle" /\ now_ >= tr.force_recognition_until_ts THEN FALSE
    ELSE IF now_ < tr.force_recognition_until_ts
         THEN (now_ - tr.last_embed_ts) >= forced_min_period
         ELSE (now_ - tr.last_embed_ts) >= embed_refresh_seconds

\* ---- Recognizer.update_tracks, body of the loop for one track ----
ExtendForce(tr, until) ==
    [tr EXCEPT !.force_recognition_until_ts = Max2(@, until)]

Abs(x) == IF x < 0 THEN 0 - x ELSE x

\* a demotion that restarts the Unknown clock
DemoteRestart(tr, score, now_) ==
    [tr EXCEPT !.person_id = NoId, !.similarity = score, !.stable_id_hits = 0,
               !.last_known_ts = 0, !.last_known_bbox = NoBox,
               !.unknown_since_ts = now_]

\* lines 147-154 / 196-203: the track becomes Unknown
Demote(tr, score, now_) ==
    [tr EXCEPT !.person_id = NoId, !.similarity = score, !.stable_id_hits = 0,
               !.last_known_ts = 0, !.last_known_bbox = NoBox,
               !.unknown_since_ts = IF @ <= 0 THEN now_ ELSE @]

\* lines 233-244: adopt new_id and count the stable hits
Adopt(tr, new_id, score, now_) ==
    [tr EXCEPT !.stable_id_hits = IF tr.person_id = new_id THEN @ + 1 ELSE 1,
               !.last_identity_change_ts = IF tr.person_id = new_id THEN @ ELSE now_,
               !.person_id = new_id, !.similarity = score,
               !.unknown_since_ts = 0, !.last_known_ts = now_,
               !.last_known_bbox = KnownBox]

\* a hold that never expires
HoldOkGeometryOnly(tr, geom_ok, now_) == geom_ok

\* lines 122-129: hold_ok; geom_ok stands for its det_misses, det_age, IoU and
\* center-shift parts (HoldGeometryOk)
HoldOk(tr, geom_ok, now_) ==
    /\ identity_hold_seconds > 0
    /\ (now_ - tr.last_known_ts) <= identity_hold_seconds
    /\ geom_ok

\* the thresholds of Config that update_tracks reads
DefaultCfg ==
    [similarity_threshold |-> similarity_threshold,
     strict_similarity_threshold |-> strict_similarity_threshold,
     borderline_margin |-> borderline_margin]

\* Config.from_env lines 229-231 (ATTENDANCE_FAST_MODE without
\* FAST_MODE_KEEP_STRICT_CHECKS): strict_similarity_threshold = similarity_threshold
LegacyFastCfg ==
    [DefaultCfg EXCEPT !.strict_similarity_threshold = similarity_threshold]

\* lines 162-167: strict_thr
StrictThr(cfg) == Max2(cfg.similarity_threshold, cfg.strict_similarity_threshold)

\* a weak flip that keeps the old identity
FlipKeep(tr, score, now_) ==
    [ExtendForce(tr, now_ + burst_seconds) EXCEPT !.similarity = score]

\* lines 216-226: a flip below threshold + margin shows Unknown
FlipDemote(tr, score, now_) ==
    [ExtendForce(tr, now_ + burst_seconds) EXCEPT
        !.person_id = NoId, !.similarity = score,
        !.stable_id_hits = 0,
        !.unknown_since_ts = IF @ <= 0 THEN now_ ELSE @,
        !.last_identity_change_ts = now_,
        !.last_known_ts = 0, !.last_known_bbox = NoBox]

\* lines 79-244; reasons are the reasons passed to scheduler.force_burst, in call order
RecognizeTrackCfg(cfg, tr, st, out, geom_ok, now_) ==
    LET hold_ok == HoldOk(tr, geom_ok, now_)
        t1 == [tr EXCEPT !.last_embed_ts = now_]
    IN IF ~out.emb
       THEN IF tr.person_id # NoId /\ hold_ok
               THEN [tr |-> ExtendForce([t1 EXCEPT !.similarity = 0],
                                        now_ + hold_recheck_window),
                     st |-> st, reasons |-> <<>>]
               ELSE [tr |-> Demote(t1, 0, now_), st |-> st, reasons |-> <<>>]
       ELSE
       LET score == out.score
           new_id == out.id
           strict_thr == StrictThr(cfg)
           is_new_or_flip == new_id # NoId /\ (tr.person_id = NoId \/ tr.person_id # new_id)
           accept_thr == IF is_new_or_flip THEN strict_thr ELSE cfg.similarity_threshold
           borderline == Abs(score - cfg.similarity_threshold) <= cfg.borderline_margin
           stable_known == tr.person_id # NoId
                           /\ tr.stable_id_hits >= stable_id_confirmations
           st1 == IF borderline /\ ~stable_known THEN force_burst(st, now_) ELSE st
           rs1 == IF borderline /\ ~stable_known THEN <<"borderline">> ELSE <<>>
           t2 == IF borderline THEN ExtendForce(t1, now_ + burst_seconds) ELSE t1
       IN IF new_id = NoId \/ score < accept_thr
          THEN IF tr.person_id # NoId /\ hold_ok
                  THEN [tr |-> ExtendForce([t2 EXCEPT !.similarity = score],
                                           now_ + hold_recheck_window),
                        st |-> st1, reasons |-> rs1]
                  ELSE LET t3 == Demote(IF tr.person_id # NoId
                                           THEN [t2 EXCEPT !.last_identity_change_ts = now_]
                                           ELSE t2,
                                        score, now_)
                       IN IF (now_ - t3.unknown_since_ts) >= unknown_burst_after_seconds
                             THEN [tr |-> ExtendForce(t3, now_ + burst_seconds),
                                   st |-> force_burst(st1, now_),
                                   reasons |-> Append(rs1, "unknown_persist")]
                             ELSE [tr |-> t3, st |-> st1, reasons |-> rs1]
          ELSE IF tr.person_id # NoId /\ tr.person_id # new_id
               THEN IF score < cfg.similarity_threshold + cfg.borderline_margin
                       THEN [tr |-> FlipDemote(t2, score, now_),
                             st |-> force_burst(st1, now_),
                             reasons |-> Append(rs1, "identity_flip")]
                       ELSE [tr |-> Adopt([ExtendForce(t2, now_ + burst_seconds) EXCEPT
                                              !.last_identity_change_ts = now_,
                                              !.stable_id_hits = 0],
                                          new_id, score, now_),
                             st |-> force_burst(st1, now_),
                             reasons |-> Append(rs1, "identity_flip")]
               ELSE [tr |-> Adopt(t2, new_id, score, now_), st |-> st1, reasons |-> rs1]

\* update_tracks under the default thresholds
RecognizeTrack(tr, st, out, geom_ok, now_) ==
    RecognizeTrackCfg(DefaultCfg, tr, st, out, geom_ok, now_)

\* time passing by delta, seen from Now: a stored timestamp moves back
Older(ts, delta) == IF ts = 0 THEN 0 ELSE Max2(ts - delta, Now - Horizon)

OlderTrack(tr, delta) ==
    [tr EXCEPT !.last_embed_ts = Older(@, delta),
               !.unknown_since_ts = Older(@, delta),
               !.last_identity_change_ts = Older(@, delta),
               !.force_recognition_until_ts = Older(@, delta),
               !.last_known_ts = Older(@, delta),
               !.verify_started_ts = Older(@, delta),
               !.verify_last_embed_ts = Older(@, delta)]

OlderTracks(trs, delta) == [i \in DOMAIN trs |-> OlderTrack(trs[i], delta)]

OlderSched(st, delta) ==
    [st EXCEPT !.last_activity_ts = Older(@, delta), !.burst_until_ts = Older(@, delta)]

\* an enqueue time older than Horizon is forgotten
OlderEnq(ts, delta) == IF ts = 0 \/ ts - delta <= Now - Horizon THEN 0 ELSE ts - delta

\* ---- AdaptiveScheduler, call after call ----
\* time between two calls on the scheduler: inside idle_seconds, idle_seconds,
\* beyond burst_seconds
SchedDeltas == {150, 200, 400}

NoSchedCall == [kind |-> "none"]

SchedInit ==
    /\ sch_state = SchedulerInit(Now)
    /\ sch_call = NoSchedCall
    /\ sch_calls = 0

\* AdaptiveScheduler.update (lines 54-93), delta after the previous call; event
\* tells whether `events` holds one of the burst events
SchedUpdate(delta, motion_active, tracks_present, event) ==
    /\ sch_calls < MaxSchedCalls
    /\ LET pre == OlderSched(sch_state, delta)
       IN /\ sch_state' = SchedulerUpdate(pre, motion_active, tracks_present, event, Now)
          /\ sch_call' = [kind |-> "update", pre |-> pre, motion_active |-> motion_active,
                          tracks_present |-> tracks_present, event |-> event]
    /\ sch_calls' = sch_calls + 1

\* AdaptiveScheduler.force_burst (lines 42-52) called by the recognizer or the
\* debouncer, delta after the previous call
SchedForceBurst(delta) ==
    /\ sch_calls < MaxSchedCalls
    /\ LET pre == OlderSched(sch_state, delta)
       IN /\ sch_state' = force_burst(pre, Now)
          /\ sch_call' = [kind |-> "force_burst", pre |-> pre]
    /\ sch_calls' = sch_calls + 1

\* ---- Recognizer.update_tracks on one track: the inputs of a run ----
identity_hold_min_iou == 5

identity_hold_max_det_misses == 1

identity_hold_max_center_shift_ratio == 35

\* line 126: det_age <= min(hold_s, 1.25)
hold_max_det_age == 125

\* what the tracker left on a known track: detections missed, age of the last
\* detection, IoU and center distance between bbox and last_known_bbox, the
\* larger box dimension (pixels)
GoodGeom ==
    [det_misses |-> 0, det_age |-> 10, bbox_iou |-> 50, center_shift |-> 10,
     max_dim |-> 100]

HoldGeoms ==
    {GoodGeom,
     [GoodGeom EXCEPT !.det_misses = 2],
     [GoodGeom EXCEPT !.det_age = 130],
     [GoodGeom EXCEPT !.bbox_iou = 2],
     [GoodGeom EXCEPT !.center_shift = 50]}

\* lines 116, 125-128 (a known track always has a last_known_bbox, line 244)
HoldGeometryOk(g) ==
    /\ g.det_misses <= identity_hold_max_det_misses
    /\ g.det_age <= Min2(identity_hold_seconds, hold_max_det_age)
    /\ g.bbox_iou >= identity_hold_min_iou
    /\ g.center_shift * 100 <= identity_hold_max_center_shift_ratio * g.max_dim

\* outcomes of embed + match: none, nobody at 0.20, the same employee below the
\* threshold, an employee clearly matched, another employee between
\* threshold + margin and the strict threshold, just above the strict threshold
RecUnitOutcomes ==
    {[emb |-> FALSE, id |-> NoId, score |-> 0],
     [emb |-> TRUE, id |-> NoId, score |-> 20],
     [emb |-> TRUE, id |-> "e42", score |-> 30],
     [emb |-> TRUE, id |-> "e42", score |-> 80],
     [emb |-> TRUE, id |-> "e99", score |-> 45],
     [emb |-> TRUE, id |-> "e99", score |-> 55]}

\* time between two runs on the track: inside or beyond identity_hold_seconds
RecDeltas == {30, 200}

NoCall == [made |-> FALSE]

RecInit ==
    /\ rec_track = NewTrack(Now)
    /\ rec_sched = SchedulerInit(Now)
    /\ rec_call = NoCall
    /\ rec_confirmed_ts = 0
    /\ rec_runs = 0

\* one iteration of the loop of update_tracks (lines 75-244) on the track, delta
\* after the previous one; the frame loop admits it through a forced window
UpdateTracksRunCfg(cfg, delta, out, g) ==
    /\ rec_runs < MaxRuns
    /\ LET pre == OlderTrack(rec_track, delta)
           r == RecognizeTrackCfg(cfg, pre, OlderSched(rec_sched, delta), out,
                                 HoldGeometryOk(g), Now)
           matched == out.emb /\ out.id # NoId /\ out.id = r.tr.person_id
                      /\ out.score >= cfg.similarity_threshold
       IN /\ r.tr.stable_id_hits <= MaxHits
          /\ rec_track' = r.tr
          /\ rec_sched' = r.st
          /\ rec_call' = [made |-> TRUE, tr |-> pre, out |-> out, geom |-> g,
                          confirmed_ts |-> Older(rec_confirmed_ts, delta),
                          reasons |-> r.reasons]
          /\ rec_confirmed_ts' = IF matched THEN Now ELSE Older(rec_confirmed_ts, delta)
    /\ rec_runs' = rec_runs + 1

UpdateTracksRun(delta, out, g) == UpdateTracksRunCfg(DefaultCfg, delta, out, g)

\* the outcomes of embed + match, and another employee just above
\* similarity_threshold
FastModeOutcomes ==
    RecUnitOutcomes \cup {[emb |-> TRUE, id |-> "e99", score |-> 37]}

\* ---- AttendanceDebouncer ----
NoJob == [employee_id |-> NoId, similarity |-> 0]

\* AttendanceDebouncer._reset_verification
ResetVerification(tr) ==
    [tr EXCEPT !.verify_target_id = NoId, !.verify_samples = <<>>,
               !.verify_started_ts = 0, !.verify_last_embed_ts = 0]

\* number of samples of a verification that name the target (vote_count)
VoteCount(samples, target) == Cardinality({i \in DOMAIN samples : samples[i][1] = target})

\* scores of the samples that name the target
TargetScores(samples, target) ==
    LET F[i \in 0..Len(samples)] ==
            IF i = 0 THEN <<>>
            ELSE IF samples[i][1] = target THEN Append(F[i - 1], samples[i][2])
            ELSE F[i - 1]
    IN F[Len(samples)]

VerificationOkVotesOnly(samples, target) ==
    VoteCount(samples, target) >= (verification_samples \div 2 + 1)

\* _step_verification lines 200-206: majority for the target and mean similarity
\* of the target's samples >= required_avg (avg = sum / len, 0.0 without scores)
VerificationOk(samples, target) ==
    LET scores == TargetScores(samples, target)
    IN /\ VoteCount(samples, target) >= (verification_samples \div 2 + 1)
       /\ IF scores = <<>>
             THEN 0 >= verification_required_avg_similarity
             ELSE SeqSum(scores) >= verification_required_avg_similarity * Len(scores)

\* result of consider: the track, scheduler and _last_marked as consider leaves
\* them, the job (or NoJob) and the reason code
Decide(tr, st, lm, job, reason) ==
    [tr |-> tr, st |-> st, lm |-> lm, job |-> job, reason |-> reason]

\* a verification step that never gives up on an old verification
StepVerificationNoTimeout(tr, st, lm, now_) ==
    LET t1 == IF tr.last_embed_ts > 0 /\ tr.last_embed_ts # tr.verify_last_embed_ts
                 THEN [tr EXCEPT !.verify_samples =
                                    IF tr.person_id # NoId
                                       THEN Append(@, <<tr.person_id, tr.similarity>>)
                                       ELSE @,
                                 !.verify_last_embed_ts = tr.last_embed_ts]
                 ELSE tr
    IN IF Len(t1.verify_samples) < verification_samples
          THEN Decide(ExtendForce(t1, now_ + burst_seconds), force_burst(st, now_), lm,
                      NoJob, "verify_collecting")
       ELSE IF ~VerificationOk(t1.verify_samples, t1.verify_target_id)
          THEN Decide(ResetVerification(t1), st, lm, NoJob, "verify_failed")
       ELSE Decide(ResetVerification(t1), st, lm,
                   [employee_id |-> t1.verify_target_id, similarity |-> t1.similarity],
                   "verified")

\* AttendanceDebouncer._step_verification
StepVerification(tr, st, lm, now_) ==
    IF verification_samples <= 1
    THEN Decide(ResetVerification(tr), st, lm,
                [employee_id |-> tr.verify_target_id, similarity |-> tr.similarity],
                "verified_fast")
    ELSE
    LET t1 == IF tr.last_embed_ts > 0 /\ tr.last_embed_ts # tr.verify_last_embed_ts
                 THEN [tr EXCEPT !.verify_samples =
                                    IF tr.person_id # NoId
                                       THEN Append(@, <<tr.person_id, tr.similarity>>)
                                       ELSE @,
                                 !.verify_last_embed_ts = tr.last_embed_ts]
                 ELSE tr
        started == IF tr.verify_started_ts = 0 THEN now_ ELSE tr.verify_started_ts
    IN IF (now_ - started) > burst_seconds + verify_timeout_extra
          THEN Decide(ResetVerification(t1), st, lm, NoJob, "verify_timeout")
       ELSE IF Len(t1.verify_samples) < verification_samples
          THEN Decide(ExtendForce(t1, now_ + burst_seconds), force_burst(st, now_), lm,
                      NoJob, "verify_collecting")
       ELSE IF t1.verify_target_id = NoId
          THEN Decide(ResetVerification(t1), st, lm, NoJob, "verify_no_target")
       ELSE IF ~VerificationOk(t1.verify_samples, t1.verify_target_id)
          THEN Decide(ResetVerification(t1), st, lm, NoJob, "verify_failed")
       ELSE Decide(ResetVerification(t1), st, lm,
                   [employee_id |-> t1.verify_target_id, similarity |-> t1.similarity],
                   "verified")

\* AttendanceDebouncer.consider
consider(tr, st, lm, now_) ==
    IF tr.person_id = NoId
       THEN Decide(ResetVerification(tr), st, lm, NoJob, "unknown")
    ELSE IF tr.verify_target_id # NoId
       THEN StepVerification(tr, st, lm, now_)
    ELSE IF tr.stable_id_hits < stable_id_confirmations
       THEN Decide(tr, st, lm, NoJob, "unstable_id")
    ELSE IF tr.similarity < Max2(similarity_threshold, strict_similarity_threshold)
       THEN Decide(tr, st, lm, NoJob, "low_similarity")
    ELSE IF /\ attendance_min_identity_age_seconds > 0
            /\ \/ tr.last_identity_change_ts <= 0
               \/ (now_ - tr.last_identity_change_ts) < attendance_min_identity_age_seconds
       THEN Decide(tr, st, lm, NoJob, "identity_too_fresh")
    ELSE IF /\ attendance_max_embed_age_seconds > 0
            /\ \/ tr.last_embed_ts <= 0
               \/ (now_ - tr.last_embed_ts) > attendance_max_embed_age_seconds
       THEN Decide(tr, st, lm, NoJob, "stale_embedding")
    ELSE IF (now_ - lm[tr.person_id]) < attendance_debounce_seconds
       THEN Decide(tr, st, [lm EXCEPT ![tr.person_id] = now_], NoJob, "debounce_extend")
    ELSE IF verification_samples <= 1
       THEN Decide(tr, st, lm,
                   [employee_id |-> tr.person_id, similarity |-> tr.similarity],
                   "verified_fast")
    ELSE Decide(ExtendForce(
                  [tr EXCEPT !.verify_target_id = tr.person_id,
                             !.verify_started_ts = now_,
                             !.verify_samples =
                                 IF tr.last_embed_ts > 0
                                    THEN << <<tr.person_id, tr.similarity>> >>
                                    ELSE <<>>,
                             !.verify_last_embed_ts =
                                 IF tr.last_embed_ts > 0 THEN tr.last_embed_ts ELSE 0],
                  now_ + burst_seconds),
                force_burst(st, now_), lm, NoJob, "verify_started")

\* ---- process_frame of one camera, in program order ----
AttCameras == {"cam1", "cam2"}

\* DBWriter(max_queue=...) of the checked configuration (the runtime passes 1000)
max_queue == 2

\* time between two frames: the forced recognition cadence, or a pause longer
\* than the burst window
FrameDeltas == {5, 400}

IdlePc == [phase |-> "idle", idx |-> 0]

NoDecision == [called |-> FALSE]

NoRun == [idx |-> 0]

\* a clear that forgets the identity and keeps its counter
ClearIdentityKeepHits(tr, now_) ==
    ExtendForce([tr EXCEPT !.person_id = NoId, !.similarity = 0,
                           !.unknown_since_ts = now_, !.last_known_ts = 0,
                           !.last_known_bbox = NoBox,
                           !.last_identity_change_ts = now_],
                now_ + reacquire_window)

\* TrackerManager.apply_detections lines 275-286: weak re-association of a known track
ClearIdentity(tr, now_) ==
    ExtendForce([tr EXCEPT !.person_id = NoId, !.similarity = 0, !.stable_id_hits = 0,
                           !.unknown_since_ts = now_, !.last_known_ts = 0,
                           !.last_known_bbox = NoBox,
                           !.last_identity_change_ts = now_],
                now_ + reacquire_window)

\* what the tracker and an applied detection result do to one existing track:
\* keep it, clear its identity (weak re-association), or remove it (aged out, pruned)
TrackEvents == {"keep", "clear", "drop"}

\* how the gates around consider end for one track (see Attend)
Gates == {"skip", "fas_reject", "pass"}

RECURSIVE ApplyTrackEvents(_, _, _, _)
ApplyTrackEvents(trs, evt, det_applied, now_) ==
    IF trs = <<>> THEN <<>>
    ELSE LET tr == Head(trs)
             rest == ApplyTrackEvents(Tail(trs), Tail(evt), det_applied, now_)
             t1 == IF Head(evt) = "clear" THEN ClearIdentity(tr, now_) ELSE tr
             t2 == IF det_applied THEN ExtendForce(t1, now_ + detection_recheck_window)
                   ELSE t1
         IN IF Head(evt) = "drop" THEN rest ELSE <<t2>> \o rest

\* process_frame lines 952-966 for a track spawned by this detection result
SpawnedTrack(now_) ==
    ExtendForce(ExtendForce(NewTrack(now_), now_ + burst_seconds),
                now_ + detection_recheck_window)

\* process_frame lines 970-979: tracks_attention
TracksAttention(trs) ==
    \/ Len(trs) >= 2
    \/ /\ Len(trs) = 1
       /\ \/ trs[1].verify_target_id # NoId
          \/ trs[1].person_id = NoId
          \/ trs[1].stable_id_hits < stable_id_confirmations

PcAfter(phase, i, n) ==
    IF n = 0 THEN IdlePc
    ELSE IF phase = "begin" THEN [phase |-> "rec", idx |-> 1]
    ELSE IF i < n THEN [phase |-> phase, idx |-> i + 1]
    ELSE IF phase = "rec" THEN [phase |-> "att", idx |-> 1]
    ELSE IdlePc

\* ---- TrackerManager.apply_detections ----
\* lengths are in units of 4 pixels; a box is <<x1, y1, x2, y2>>
frame_w == 160

frame_h == 120

\* track_iou_match_threshold 0.25, in 1/100
track_iou_match_threshold == 25

\* track_center_match_px 200
track_center_match == 50

\* track_known_reacquire_clear_iou 0.18, in 1/100
track_known_reacquire_clear_iou == 18

\* track_known_reacquire_clear_center_ratio 0.65, in 1/100
track_known_reacquire_clear_center_ratio == 65

track_max_det_misses_unknown == 0

track_max_det_misses_known == 12

\* faces the detector can report: a square face, the same face moved by 0.4 of
\* its width (IoU 0.43) and by 2/3 of its width (IoU 0.20), a narrow tall box
\* around its center (IoU 0.14), a face elsewhere in the frame, and a
\* degenerate box
BoxA == <<30, 30, 60, 60>>

BoxNear == <<42, 30, 72, 60>>

BoxFar == <<50, 30, 80, 60>>

BoxThin == <<42, 0, 48, 90>>

BoxOther == <<120, 30, 150, 60>>

BoxEmpty == <<100, 30, 100, 60>>

Boxes == {BoxA, BoxNear, BoxFar, BoxThin, BoxOther, BoxEmpty}

\* detection results are applied 0.4 s apart
DetectionDeltas == {40}

\* lines 205-209: clamp a detection to the frame
ClampBox(b) ==
    <<Max2(0, Min2(frame_w - 1, b[1])), Max2(0, Min2(frame_h - 1, b[2])),
      Max2(0, Min2(frame_w, b[3])), Max2(0, Min2(frame_h, b[4]))>>

\* lines 210-213
ValidBox(b) == b[3] > b[1] /\ b[4] > b[2]

ValidDetections(dets) == SelectSeq([i \in DOMAIN dets |-> ClampBox(dets[i])], ValidBox)

BoxArea(b) == Max2(0, b[3] - b[1]) * Max2(0, b[4] - b[2])

\* _bbox_iou: intersection and union
BoxInter(a, b) ==
    Max2(0, Min2(a[3], b[3]) - Max2(a[1], b[1])) * Max2(0, Min2(a[4], b[4]) - Max2(a[2], b[2]))

BoxUnion(a, b) == BoxArea(a) + BoxArea(b) - BoxInter(a, b)

\* _bbox_iou in 1/10000, rounded down
Iou10k(a, b) == (10000 * BoxInter(a, b)) \div BoxUnion(a, b)

ISqrt(n) == CHOOSE r \in 0..(2 * (frame_w + frame_h)) : r * r <= n /\ n < (r + 1) * (r + 1)

\* twice _center_dist (exact for the boxes above, whose centers differ along one axis)
CenterDist2(a, b) ==
    LET dx == (a[1] + a[3]) - (b[1] + b[3])
        dy == (a[2] + a[4]) - (b[2] + b[4])
    IN IF dy = 0 THEN Abs(dx) ELSE IF dx = 0 THEN Abs(dy) ELSE ISqrt(dx * dx + dy * dy)

\* lines 225-241: max(tw, th, bw, bh) with sides of at least 1
MaxDim(a, b) ==
    SetMax({Max2(1, a[3] - a[1]), Max2(1, a[4] - a[2]),
            Max2(1, b[3] - b[1]), Max2(1, b[4] - b[2])})

\* line 243: five times eff_center = min(center_px, 0.80 * max_dim)
EffCenter5(a, b) == Min2(5 * track_center_match, 4 * MaxDim(a, b))

\* lines 225-246: is (track box, detection box) a candidate pair
CandidatePair(tbox, dbox) ==
    LET t_area == Max2(1, tbox[3] - tbox[1]) * Max2(1, tbox[4] - tbox[2])
        b_area == Max2(1, dbox[3] - dbox[1]) * Max2(1, dbox[4] - dbox[2])
    IN /\ 100 * b_area >= 50 * t_area
       /\ 100 * b_area <= 200 * t_area
       /\ ~(/\ 100 * BoxInter(tbox, dbox) < track_iou_match_threshold * BoxUnion(tbox, dbox)
            /\ 5 * CenterDist2(tbox, dbox) > 2 * EffCenter5(tbox, dbox))

\* line 249: score = iou - dist / max(1, eff_center * 4), in 1/10000
PairScore(tbox, dbox) ==
    Iou10k(tbox, dbox) - (50000 * CenterDist2(tbox, dbox)) \div (8 * EffCenter5(tbox, dbox))

\* lines 224-250: the candidate pairs (score, iou, -dist, tid, det_idx)
CandidatePairs(trs, valid) ==
    {[score |-> PairScore(trs[tid].bbox, valid[j]), iou |-> Iou10k(trs[tid].bbox, valid[j]),
      ndist |-> 0 - CenterDist2(trs[tid].bbox, valid[j]), tid |-> tid, det |-> j] :
        <<tid, j>> \in {q \in (DOMAIN trs) \X (DOMAIN valid) :
                          CandidatePair(trs[q[1]].bbox, valid[q[2]])}}

\* tuple order of (score, iou, -dist, tid, det_idx)
PairAfter(p, q) ==
    \/ p.score > q.score
    \/ p.score = q.score /\ p.iou > q.iou
    \/ p.score = q.score /\ p.iou = q.iou /\ p.ndist > q.ndist
    \/ p.score = q.score /\ p.iou = q.iou /\ p.ndist = q.ndist /\ p.tid > q.tid
    \/ /\ p.score = q.score /\ p.iou = q.iou /\ p.ndist = q.ndist /\ p.tid = q.tid
       /\ p.det >= q.det

RECURSIVE SortPairsReverse(_)
\* line 252: pairs.sort(reverse=True)
SortPairsReverse(S) ==
    IF S = {} THEN <<>>
    ELSE LET m == CHOOSE p \in S : \A q \in S : PairAfter(p, q)
         IN <<m>> \o SortPairsReverse(S \ {m})

\* a test that looks at the track only
TrackTaken(p, assigned_tracks, assigned_dets) == p.tid \in assigned_tracks

\* line 255: if tid in assigned_tracks or det_idx in assigned_dets: continue
PairTaken(p, assigned_tracks, assigned_dets) ==
    p.tid \in assigned_tracks \/ p.det \in assigned_dets

RECURSIVE GreedyMatch(_, _, _)
\* lines 254-258: the pairs the loop accepts, in order
GreedyMatch(pairs, assigned_tracks, assigned_dets) ==
    IF pairs = <<>> THEN <<>>
    ELSE LET p == Head(pairs)
         IN IF PairTaken(p, assigned_tracks, assigned_dets)
               THEN GreedyMatch(Tail(pairs), assigned_tracks, assigned_dets)
               ELSE <<p>> \o GreedyMatch(Tail(pairs), assigned_tracks \cup {p.tid},
                                         assigned_dets \cup {p.det})

\* a clear rule that looks at the overlap only
WeakOverlapOnly(tbox, dbox) ==
    100 * BoxInter(tbox, dbox) < track_known_reacquire_clear_iou * BoxUnion(tbox, dbox)

\* lines 266-277: iou < clear_iou_thr or dist > clear_center_thr
WeakAssociation(tbox, dbox) ==
    LET t_max_dim == SetMax({1, tbox[3] - tbox[1], tbox[4] - tbox[2]})
        b_max_dim == SetMax({1, dbox[3] - dbox[1], dbox[4] - dbox[2]})
    IN \/ 100 * BoxInter(tbox, dbox) < track_known_reacquire_clear_iou * BoxUnion(tbox, dbox)
       \/ 100 * CenterDist2(tbox, dbox)
             > 2 * track_known_reacquire_clear_center_ratio * Max2(t_max_dim, b_max_dim)

\* lines 259-302: the matched track takes the detection box
MatchedTrack(t, dbox, now_) ==
    [bbox |-> dbox, det_misses |-> 0,
     tr |-> IF t.tr.person_id # NoId /\ WeakAssociation(t.bbox, dbox)
               THEN ClearIdentity(t.tr, now_) ELSE t.tr]

\* lines 304-331: a new Track for an unassigned detection
SpawnTrack(dbox, now_) == [bbox |-> dbox, det_misses |-> 0, tr |-> NewTrack(now_)]

\* lines 333-345: is the track pruned
Pruned(t) ==
    t.det_misses > (IF t.tr.person_id # NoId THEN track_max_det_misses_known
                    ELSE track_max_det_misses_unknown)

NoDetCall == [made |-> FALSE]

TrkInit ==
    /\ trk_tracks = <<>>
    /\ trk_next_id = 1
    /\ trk_used_ids = {}
    /\ trk_call = NoDetCall
    /\ trk_calls = 0

\* lines 196-258: age the tracks, count a miss for each, filter the detections, match
MatchDetections(trs, dets, delta) ==
    LET before == [tid \in DOMAIN trs |->
                     [trs[tid] EXCEPT !.det_misses = @ + 1, !.tr = OlderTrack(@, delta)]]
        valid == ValidDetections(dets)
    IN [before |-> before, valid |-> valid,
        matches |-> GreedyMatch(SortPairsReverse(CandidatePairs(before, valid)), {}, {})]

\* apply_detections (lines 185-347) delta after the previous tracker call
apply_detections(dets, delta) ==
    /\ trk_calls < MaxDetCalls
    /\ \E m \in {MatchDetections(trk_tracks, dets, delta)} :
       LET before == m.before
           valid == m.valid
           matches == m.matches
           det_of == [tid \in {matches[i].tid : i \in DOMAIN matches} |->
                        matches[CHOOSE i \in DOMAIN matches : matches[i].tid = tid].det]
           assigned_dets == {matches[i].det : i \in DOMAIN matches}
           unassigned == SelectSeq([j \in DOMAIN valid |-> j],
                                   LAMBDA j : j \notin assigned_dets)
           new_ids == [k \in DOMAIN unassigned |-> trk_next_id + k - 1]
           all == [tid \in (DOMAIN before) \cup Range(new_ids) |->
                     IF tid \in DOMAIN det_of
                        THEN MatchedTrack(before[tid], valid[det_of[tid]], Now)
                     ELSE IF tid \in DOMAIN before THEN before[tid]
                     ELSE SpawnTrack(valid[unassigned[tid - trk_next_id + 1]], Now)]
           kept == {tid \in DOMAIN all : ~Pruned(all[tid])}
       IN /\ trk_tracks' = [tid \in kept |-> all[tid]]
          /\ trk_next_id' = trk_next_id + Len(unassigned)
          /\ trk_used_ids' = trk_used_ids \cup Range(new_ids)
          /\ trk_call' = [made |-> TRUE, before |-> before, valid |-> valid,
                          matches |-> {<<matches[i].tid, matches[i].det>> : i \in DOMAIN matches},
                          spawned |-> {<<new_ids[k], unassigned[k]>> : k \in DOMAIN new_ids},
                          used_before |-> trk_used_ids,
                          after |-> [tid \in kept |-> all[tid]]]
    /\ trk_calls' = trk_calls + 1

\* Recognizer.update_tracks adopts an identity on a track between two detection results
TrackIdentified(tid, e) ==
    /\ tid \in DOMAIN trk_tracks
    /\ trk_tracks[tid].tr.person_id = NoId
    /\ trk_tracks' = [trk_tracks EXCEPT ![tid].tr = Adopt(@, e, 80, Now)]
    /\ UNCHANGED <<trk_next_id, trk_used_ids, trk_call, trk_calls>>

\* ---- DBWriter: enqueue, stop and the worker loop ----
QueueRoomAlways(q, maxsize) == TRUE

\* queue.Queue.put_nowait: succeeds while the bounded queue has room, else queue.Full
QueueRoom(q, maxsize) == Len(q) < maxsize

\* DBWriter.enqueue: put_nowait succeeds while the bounded queue has room
EnqueueOk(q) == QueueRoom(q, max_queue)

NoEnqueueCall == [job |-> 0]

WriteFailureEndsLoop(raised) == IF raised THEN "ended" ELSE "test"

\* _loop lines 68-71: an exception of write_fn is caught and logged, and the
\* loop goes back to its test
AfterWrite(raised) == "test"

Sentinel == 0

WriterInit ==
    /\ wr_q = <<>>
    /\ wr_stop = FALSE
    /\ wr_pc = "test"
    /\ wr_job = Sentinel
    /\ wr_accepted = <<>>
    /\ wr_written = <<>>
    /\ stop_pc = "idle"
    /\ wr_submitted = 0
    /\ wr_call = NoEnqueueCall
    /\ wr_failed = {}

\* DBWriter.enqueue (lines 36-43) of job number job: False after stop or when
\* put_nowait raises queue.Full
enqueue(job) ==
    /\ job = wr_submitted + 1
    /\ job <= MaxJobs
    /\ LET ok == ~wr_stop /\ EnqueueOk(wr_q)
       IN /\ wr_q' = IF ok THEN Append(wr_q, job) ELSE wr_q
          /\ wr_accepted' = IF ok THEN Append(wr_accepted, job) ELSE wr_accepted
          /\ wr_call' = [job |-> job, ok |-> ok, stopped |-> wr_stop, before |-> wr_q]
    /\ wr_submitted' = job
    /\ UNCHANGED <<wr_stop, wr_pc, wr_job, wr_written, stop_pc, wr_failed>>

\* _loop line 61: while not self._stop.is_set()
LoopTest ==
    /\ wr_pc = "test"
    /\ wr_pc' = IF wr_stop THEN "ended" ELSE "get"
    /\ UNCHANGED <<wr_q, wr_stop, wr_job, wr_accepted, wr_written, stop_pc,
                   wr_submitted, wr_call, wr_failed>>

\* _loop lines 62-67: get(timeout=0.25); queue.Empty -> continue; None -> return
LoopGet ==
    /\ wr_pc = "get"
    /\ IF wr_q = <<>>
          THEN /\ wr_pc' = "test"
               /\ UNCHANGED <<wr_q, wr_job>>
          ELSE /\ wr_q' = Tail(wr_q)
               /\ wr_job' = Head(wr_q)
               /\ wr_pc' = IF Head(wr_q) = Sentinel THEN "ended" ELSE "write"
    /\ UNCHANGED <<wr_stop, wr_accepted, wr_written, stop_pc,
                   wr_submitted, wr_call, wr_failed>>

\* _loop lines 68-71: write_fn(job) returns, or raises and is logged
LoopWrite(raised) ==
    /\ wr_pc = "write"
    /\ wr_written' = Append(wr_written, wr_job)
    /\ wr_failed' = IF raised THEN wr_failed \cup {wr_job} ELSE wr_failed
    /\ wr_pc' = AfterWrite(raised)
    /\ UNCHANGED <<wr_q, wr_stop, wr_job, wr_accepted, stop_pc, wr_submitted, wr_call>>

\* stop line 46: self._stop.set()
StopSet ==
    /\ stop_pc = "idle"
    /\ wr_stop' = TRUE
    /\ stop_pc' = "drain"
    /\ UNCHANGED <<wr_q, wr_pc, wr_job, wr_accepted, wr_written,
                   wr_submitted, wr_call, wr_failed>>

\* stop lines 48-52: the drain loop ends when the queue is empty, or at the
\* deadline; the deadline is taken to come only after the worker has come to rest
StopDrain ==
    /\ stop_pc = "drain"
    /\ wr_q = <<>> \/ wr_pc = "ended"
    /\ stop_pc' = "sentinel"
    /\ UNCHANGED <<wr_q, wr_stop, wr_pc, wr_job, wr_accepted, wr_written,
                   wr_submitted, wr_call, wr_failed>>

\* stop lines 54-57: put_nowait(None), queue.Full is ignored
StopSentinel ==
    /\ stop_pc = "sentinel"
    /\ wr_q' = IF EnqueueOk(wr_q) THEN Append(wr_q, Sentinel) ELSE wr_q
    /\ stop_pc' = "join"
    /\ UNCHANGED <<wr_stop, wr_pc, wr_job, wr_accepted, wr_written,
                   wr_submitted, wr_call, wr_failed>>

\* stop line 58: join returns when the worker has ended
StopJoin ==
    /\ stop_pc = "join"
    /\ wr_pc = "ended"
    /\ stop_pc' = "stopped"
    /\ UNCHANGED <<wr_q, wr_stop, wr_pc, wr_job, wr_accepted, wr_written,
                   wr_submitted, wr_call, wr_failed>>

\* ---- ERPPushQueue: enqueue and the worker loop ----
\* ERPPushQueue(maxsize=...) of the checked configuration (the default is 2000)
erp_maxsize == 2

\* ERPPushQueue(max_retries=...): the default, which the runtime uses
max_retries == 3

RetryLoopNoBreak(tries, raised) == tries >= max_retries

\* _run lines 59-68: the retry loop ends at the first call that returns (break)
\* or when range(max_retries) is used up
RetryLoopDone(tries, raised) == ~raised \/ tries >= max_retries

ErpInit ==
    /\ erp_q = <<>>
    /\ erp_pc = "get"
    /\ erp_job = 0
    /\ erp_tries = 0
    /\ erp_last_err = FALSE
    /\ erp_submitted = 0
    /\ erp_accepted = <<>>
    /\ erp_handed = <<>>
    /\ erp_posts = [j \in 1..MaxErpJobs |-> <<>>]
    /\ erp_errors = [j \in 1..MaxErpJobs |-> 0]
    /\ erp_call = NoEnqueueCall

\* ERPPushQueue.enqueue (lines 44-49) of job number job
erp_enqueue(job) ==
    /\ job = erp_submitted + 1
    /\ job <= MaxErpJobs
    /\ LET ok == QueueRoom(erp_q, erp_maxsize)
       IN /\ erp_q' = IF ok THEN Append(erp_q, job) ELSE erp_q
          /\ erp_accepted' = IF ok THEN Append(erp_accepted, job) ELSE erp_accepted
          /\ erp_call' = [job |-> job, ok |-> ok, stopped |-> FALSE, before |-> erp_q]
    /\ erp_submitted' = job
    /\ UNCHANGED <<erp_pc, erp_job, erp_tries, erp_last_err, erp_handed, erp_posts,
                   erp_errors>>

\* _run lines 52-58: _stop is never set, get(timeout=0.5) is repeated until a
\* job is there; last_err = None
ErpGet ==
    /\ erp_pc = "get"
    /\ erp_q # <<>>
    /\ erp_q' = Tail(erp_q)
    /\ erp_job' = Head(erp_q)
    /\ erp_handed' = Append(erp_handed, Head(erp_q))
    /\ erp_tries' = 0
    /\ erp_last_err' = FALSE
    /\ erp_pc' = IF 0 < max_retries THEN "attempt" ELSE "report"
    /\ UNCHANGED <<erp_submitted, erp_accepted, erp_posts, erp_errors, erp_call>>

\* _run lines 59-68: one iteration of the retry loop; manual_attendance returns,
\* or raises and the worker sleeps retry_sleep_s
ErpAttempt(raised) ==
    /\ erp_pc = "attempt"
    /\ erp_posts' = [erp_posts EXCEPT ![erp_job] = Append(@, ~raised)]
    /\ erp_last_err' = raised
    /\ erp_tries' = erp_tries + 1
    /\ erp_pc' = IF RetryLoopDone(erp_tries + 1, raised) THEN "report" ELSE "attempt"
    /\ UNCHANGED <<erp_q, erp_job, erp_submitted, erp_accepted, erp_handed, erp_errors,
                   erp_call>>

\* _run lines 70-73: on_error(last_err, job) if last_err is set, then task_done
\* and back to the head of the loop
ErpReport ==
    /\ erp_pc = "report"
    /\ erp_errors' = [erp_errors EXCEPT ![erp_job] = IF erp_last_err THEN @ + 1 ELSE @]
    /\ erp_pc' = "get"
    /\ UNCHANGED <<erp_q, erp_job, erp_tries, erp_last_err, erp_submitted, erp_accepted,
                   erp_handed, erp_posts, erp_call>>

\* ---- StreamClientManager (core/container.py) and the switches it sets ----
ScmCameras == {"cam1", "cam2"}

STREAM_TYPE_ATTENDANCE == "attendance"

STREAM_TYPE_HEADCOUNT == "headcount"

STREAM_TYPE_OT == "ot"

VALID_STREAM_TYPES == {STREAM_TYPE_ATTENDANCE, STREAM_TYPE_HEADCOUNT, STREAM_TYPE_OT}

\* stream_type arguments of inc and dec: the three types, another spelling of
\* one of them, no type and an unknown type
StreamTypeInputs == {"attendance", "headcount", "ot", " Headcount", "", "live"}

\* str(value or "").strip().lower()
StripLower(value) == IF value = " Headcount" THEN "headcount" ELSE value

\* core/settings.py normalize_stream_type
normalize_stream_type(value) ==
    IF StripLower(value) \notin VALID_STREAM_TYPES
       THEN STREAM_TYPE_ATTENDANCE
       ELSE StripLower(value)

NoCounts == [t \in VALID_STREAM_TYPES |-> 0]

\* _update_attendance_state lines 36-43
AttendanceEnabled(counts) ==
    \/ counts[STREAM_TYPE_ATTENDANCE] > 0
    \/ counts[STREAM_TYPE_HEADCOUNT] > 0
    \/ counts[STREAM_TYPE_OT] > 0

ActiveTypeOtFirst(counts) ==
    IF counts[STREAM_TYPE_OT] > 0 THEN STREAM_TYPE_OT
    ELSE IF counts[STREAM_TYPE_HEADCOUNT] > 0 THEN STREAM_TYPE_HEADCOUNT
    ELSE STREAM_TYPE_ATTENDANCE

\* _update_attendance_state lines 47-54: the type sent to the backend with a mark
ActiveType(counts) ==
    IF counts[STREAM_TYPE_ATTENDANCE] > 0 THEN STREAM_TYPE_ATTENDANCE
    ELSE IF counts[STREAM_TYPE_HEADCOUNT] > 0 THEN STREAM_TYPE_HEADCOUNT
    ELSE IF counts[STREAM_TYPE_OT] > 0 THEN STREAM_TYPE_OT
    ELSE STREAM_TYPE_ATTENDANCE

\* AttendanceRuntime.set_stream_type: an empty type is stored as attendance
StoredStreamType(stream_type) == IF stream_type = "" THEN "attendance" ELSE stream_type

\* AttendanceRuntime.is_attendance_enabled: a camera without entry is enabled
is_attendance_enabled(cam) == rt_enabled[cam] # "off"

\* AttendanceRuntime.get_stream_type: a camera without entry has type attendance
get_stream_type(cam) ==
    IF rt_stream_type[cam] = "unset" THEN "attendance" ELSE rt_stream_type[cam]

\* _update_attendance_state applied to the new counts of the camera
UpdateAttendanceState(cam, counts) ==
    /\ rt_enabled' = [rt_enabled EXCEPT ![cam] = IF AttendanceEnabled(counts) THEN "on" ELSE "off"]
    /\ rt_stream_type' = [rt_stream_type EXCEPT ![cam] = StoredStreamType(ActiveType(counts))]

ViewersOf(cam) == SumOver(scm_viewers[cam], StreamTypeInputs)

ScmInit ==
    /\ scm_clients = [c \in ScmCameras |-> 0]
    /\ scm_mode_counts = [c \in ScmCameras |-> NoCounts]
    /\ scm_viewers = [c \in ScmCameras |-> [t \in StreamTypeInputs |-> 0]]
    /\ scm_call = "none"
    /\ rt_enabled = [c \in ScmCameras |-> "unset"]
    /\ rt_stream_type = [c \in ScmCameras |-> "unset"]

\* StreamClientManager.inc (lines 57-64), the whole body under the lock
inc(cam, stream_type) ==
    /\ SumOver([c \in ScmCameras |-> ViewersOf(c)], ScmCameras) < MaxViewers
    /\ LET st == normalize_stream_type(stream_type)
           counts == [scm_mode_counts[cam] EXCEPT ![st] = @ + 1]
       IN /\ scm_clients' = [scm_clients EXCEPT ![cam] = @ + 1]
          /\ scm_mode_counts' = [scm_mode_counts EXCEPT ![cam] = counts]
          /\ UpdateAttendanceState(cam, counts)
    /\ scm_viewers' = [scm_viewers EXCEPT ![cam][stream_type] = @ + 1]
    /\ scm_call' = cam

\* StreamClientManager.dec (lines 66-87) for a viewer that was registered by inc
\* with the same camera and stream type
dec(cam, stream_type) ==
    /\ scm_viewers[cam][stream_type] > 0
    /\ LET st == normalize_stream_type(stream_type)
           cur == scm_clients[cam] - 1
           cnt == scm_mode_counts[cam][st] - 1
           counts == [scm_mode_counts[cam] EXCEPT ![st] = IF cnt <= 0 THEN 0 ELSE cnt]
       IN /\ scm_clients' = [scm_clients EXCEPT ![cam] = IF cur <= 0 THEN 0 ELSE cur]
          /\ scm_mode_counts' = [scm_mode_counts EXCEPT ![cam] = counts]
          /\ UpdateAttendanceState(cam, counts)
    /\ scm_viewers' = [scm_viewers EXCEPT ![cam][stream_type] = @ - 1]
    /\ scm_call' = cam

\* ---- a mark from process_frame through the DB writer to _write_attendance_job ----
\* the camera of the scene and its company
MarkCamera == "cam1"

MarkCompany == "acme"

MarksInit ==
    /\ mk_erp_on = FALSE
    /\ mk_decided = [j \in 1..MaxJobs |-> "none"]
    /\ mk_backend = <<>>
    /\ mk_erp = [j \in 1..MaxJobs |-> 0]
    /\ mk_voiced = [j \in 1..MaxJobs |-> 0]

\* AttendanceRuntime.__init__ lines 399-414: with ERP_BASE_URL set the runtime is
\* built with an ERPPushQueue, otherwise erp_queue stays None
EnableErp ==
    /\ ~mk_erp_on
    /\ wr_submitted = 0
    /\ mk_erp_on' = TRUE
    /\ UNCHANGED <<mk_decided, mk_backend, mk_erp, mk_voiced>>

\* The recognition worker of a camera runs while the camera has viewers
\* (streams/mjpeg.py lines 62-64 and 104-107). process_frame of an enabled camera
\* decides a mark and enqueues its job (lines 918, 1085-1098); the
\* AttendanceWriteJob has no field for the stream type.
MarkEnqueue(cam) ==
    /\ scm_clients[cam] > 0
    /\ is_attendance_enabled(cam)
    /\ wr_submitted < MaxMarks
    /\ enqueue(wr_submitted + 1)
    /\ mk_decided' = [mk_decided EXCEPT ![wr_submitted + 1] = get_stream_type(cam)]
    /\ UNCHANGED <<mk_erp_on, mk_backend, mk_erp, mk_voiced>>

\* BackendClient.create_attendance(..., event_type) as the runtime calls it:
\* POST /attendance with event_type; the call returns or raises
CreateAttendance(log, job, event_type, raises) ==
    IF raises THEN log ELSE Append(log, [job |-> job, event_type |-> event_type])

\* push_voice_event lines 514-531, the critical section of one publisher
PushVoiceEvent(k) ==
    LET s == voice_seq[k] + 1
        bucket == Append(voice_events[k], s)
    IN /\ voice_seq' = [voice_seq EXCEPT ![k] = s]
       /\ voice_events' = [voice_events EXCEPT ![k] =
                             IF voice_max_events > 0 /\ Len(bucket) > voice_max_events
                                THEN TrimBucket(bucket, voice_max_events)
                                ELSE bucket]
       /\ reader' = NotifyAll(reader)
       /\ UNCHANGED <<voice_lock, voice_pc, voice_local, voice_returned, reader_result,
                      reader_calls>>

\* DBWriter._loop lines 68-71 with write_fn = _write_attendance_job (lines 797-839):
\* the stream type is read when the job is written
WriteAttendanceJob(raises) ==
    /\ wr_pc = "write"
    /\ LET job == wr_job
           stream_type == get_stream_type(MarkCamera)
           push == ~raises /\ stream_type = "attendance" /\ mk_erp_on
           ok == push /\ QueueRoom(erp_q, erp_maxsize)
       IN /\ mk_backend' = CreateAttendance(mk_backend, job, stream_type, raises)
          /\ IF push THEN erp_enqueue(erp_submitted + 1) ELSE UNCHANGED erpVars
          /\ mk_erp' = [mk_erp EXCEPT ![job] = IF ok THEN @ + 1 ELSE @]
          /\ IF ok THEN PushVoiceEvent(MarkCompany) ELSE UNCHANGED voiceVars
          /\ mk_voiced' = [mk_voiced EXCEPT ![job] = IF ok THEN @ + 1 ELSE @]
          /\ wr_written' = Append(wr_written, job)
          /\ wr_failed' = IF raises THEN wr_failed \cup {job} ELSE wr_failed
    /\ wr_pc' = AfterWrite(raises)
    /\ UNCHANGED <<wr_q, wr_stop, wr_job, wr_accepted, stop_pc, wr_submitted, wr_call>>
    /\ UNCHANGED <<mk_erp_on, mk_decided>>

AttInit ==
    /\ att_pc = [c \in AttCameras |-> IdlePc]
    /\ frame_now = [c \in AttCameras |-> 0]
    /\ frame_count = [c \in AttCameras |-> 0]
    /\ tracks = [c \in AttCameras |-> <<>>]
    /\ sched = [c \in AttCameras |-> SchedulerInit(Now)]
    /\ last_marked = [e \in Employees |-> 0]
    /\ dbq = <<>>
    /\ enq_last2 = [e \in Employees |-> <<0, 0>>]
    /\ decision = [c \in AttCameras |-> NoDecision]
    /\ last_run = [c \in AttCameras |-> NoRun]

\* process_frame lines 903-985: read the clock (delta after the previous reading),
\* step the tracker, apply the newest detection result, update the scheduler mode.
\* cap bounds the tracks of the camera, maxf its frames, spawn is the number of
\* new tracks the detection result creates.
FrameBegin(c, cap, maxf, delta, det_applied, evt, spawn, motion_active) ==
    /\ att_pc[c].phase = "idle"
    /\ frame_count[c] < maxf
    /\ evt \in [1..Len(tracks[c]) -> TrackEvents]
    /\ \A i \in DOMAIN evt :
          evt[i] = "clear" => det_applied /\ tracks[c][i].person_id # NoId
    /\ spawn \in 0..cap
    /\ spawn > 0 => det_applied
    /\ LET aged == [k \in AttCameras |-> OlderTracks(tracks[k], delta)]
           kept == ApplyTrackEvents(aged[c], evt, det_applied, Now)
           trs == kept \o [i \in 1..spawn |-> SpawnedTrack(Now)]
           st0 == IF frame_count[c] > 0 THEN OlderSched(sched[c], delta) ELSE SchedulerInit(Now)
       IN /\ Len(trs) <= cap
          /\ frame_now' = [k \in AttCameras |->
                             IF k = c THEN Now ELSE Older(frame_now[k], delta)]
          /\ frame_count' = [frame_count EXCEPT ![c] = @ + 1]
          /\ tracks' = [aged EXCEPT ![c] = trs]
          /\ sched' = [k \in AttCameras |->
                         IF k = c
                            THEN SchedulerUpdate(st0, motion_active, TracksAttention(trs),
                                                 spawn > 0, Now)
                            ELSE OlderSched(sched[k], delta)]
          /\ att_pc' = [att_pc EXCEPT ![c] = PcAfter("begin", 0, Len(trs))]
          /\ decision' = [decision EXCEPT ![c] = NoDecision]
          /\ last_run' = [last_run EXCEPT ![c] = NoRun]
          /\ last_marked' = [e \in Employees |-> Older(last_marked[e], delta)]
          /\ enq_last2' = [e \in Employees |->
                             <<OlderEnq(enq_last2[e][1], delta),
                               OlderEnq(enq_last2[e][2], delta)>>]
    /\ UNCHANGED dbq

\* process_frame line 993, Recognizer.update_tracks: one iteration of its loop
\* for a track that should_run_recognition admits
Recognize(c, out, geom_ok) ==
    /\ att_pc[c].phase = "rec"
    /\ LET i == att_pc[c].idx
           tr == tracks[c][i]
           r == RecognizeTrack(tr, sched[c], out, geom_ok, frame_now[c])
       IN /\ should_run_recognition(sched[c], tr, frame_now[c])
          /\ r.tr.stable_id_hits <= MaxHits
          /\ tracks' = [tracks EXCEPT ![c][i] = r.tr]
          /\ sched' = [sched EXCEPT ![c] = r.st]
          /\ last_run' = [last_run EXCEPT ![c] =
                             [idx |-> i, out |-> out, reasons |-> r.reasons]]
          /\ att_pc' = [att_pc EXCEPT ![c] = PcAfter("rec", i, Len(tracks[c]))]
    /\ UNCHANGED <<frame_now, frame_count, last_marked, dbq, enq_last2, decision>>

\* Recognizer.update_tracks lines 76-77: `continue` for a track that
\* should_run_recognition refuses
RecognizeSkip(c) ==
    /\ att_pc[c].phase = "rec"
    /\ ~should_run_recognition(sched[c], tracks[c][att_pc[c].idx], frame_now[c])
    /\ att_pc' = [att_pc EXCEPT ![c] = PcAfter("rec", att_pc[c].idx, Len(tracks[c]))]
    /\ UNCHANGED <<frame_now, frame_count, tracks, sched, last_marked, dbq,
                   enq_last2, decision, last_run>>

\* a frame loop that trusts the job consider returned
IdentityUnchecked(tr, job) == TRUE

\* process_frame line 1051: the final identity check
IdentityAgrees(tr, job) == tr.person_id = job.employee_id

\* a frame loop that stamps the employee of every job consider returns
MarkEveryJob(lm, ok, emp, now_) ==
    IF emp # NoId THEN [lm EXCEPT ![emp] = now_] ELSE lm

\* process_frame lines 1096-1102: mark_enqueued only when enqueue returned True
MarkIfEnqueued(lm, ok, emp, now_) ==
    IF ok THEN [lm EXCEPT ![emp] = now_] ELSE lm

\* process_frame lines 1011-1106: one iteration of the attendance loop.
\* gates: "skip" = attendance disabled / edge face / low quality (consider is not
\* called), "fas_reject" = the anti-spoof gate refuses, "pass" = all gates pass.
AttendQueue(c, gates, maxsize) ==
    /\ att_pc[c].phase = "att"
    /\ LET i == att_pc[c].idx
           tr == tracks[c][i]
           now_ == frame_now[c]
           d == consider(tr, sched[c], last_marked, now_)
           called == tr.person_id # NoId /\ gates # "skip"
           emp == d.job.employee_id
           try == /\ called
                  /\ d.job # NoJob
                  /\ IdentityAgrees(d.tr, d.job)
                  /\ gates = "pass"
           ok == try /\ QueueRoom(dbq, maxsize)
       IN /\ called \/ gates = "skip"
          /\ tracks' = [tracks EXCEPT ![c][i] = IF called THEN d.tr ELSE tr]
          /\ sched' = [sched EXCEPT ![c] = IF called THEN d.st ELSE @]
          /\ dbq' = IF ok THEN Append(dbq, emp) ELSE dbq
          /\ last_marked' = IF called THEN MarkIfEnqueued(d.lm, ok, emp, now_)
                            ELSE last_marked
          /\ enq_last2' = IF ok THEN [enq_last2 EXCEPT ![emp] = <<@[2], now_>>]
                          ELSE enq_last2
          /\ decision' = [decision EXCEPT ![c] =
                IF called
                   THEN [called |-> TRUE,
                         reason |-> d.reason,
                         job |-> d.job,
                         in_verification |-> tr.verify_target_id # NoId,
                         target |-> tr.verify_target_id,
                         samples |-> IF tr.verify_target_id # NoId
                                        /\ tr.last_embed_ts > 0
                                        /\ tr.last_embed_ts # tr.verify_last_embed_ts
                                        THEN Append(tr.verify_samples,
                                                    <<tr.person_id, tr.similarity>>)
                                        ELSE tr.verify_samples,
                         stable_id_hits |-> tr.stable_id_hits,
                         embed_age |-> now_ - tr.last_embed_ts,
                         verify_cleared |-> d.tr.verify_target_id = NoId
                                            /\ d.tr.verify_samples = <<>>
                                            /\ d.tr.verify_started_ts = 0,
                         gates |-> gates,
                         enqueued |-> ok]
                   ELSE NoDecision]
          /\ att_pc' = [att_pc EXCEPT ![c] = PcAfter("att", i, Len(tracks[c]))]
          /\ last_run' = [last_run EXCEPT ![c] =
                             IF PcAfter("att", i, Len(tracks[c])) = IdlePc THEN NoRun ELSE @]
    /\ UNCHANGED <<frame_now, frame_count>>

\* the attendance loop in front of the DBWriter of the checked configuration
Attend(c, gates) == AttendQueue(c, gates, max_queue)

\* DBWriter._loop: take the next job and hand it to write_fn
DBWriterLoop ==
    /\ dbq # <<>>
    /\ dbq' = Tail(dbq)
    /\ UNCHANGED <<att_pc, frame_now, frame_count, tracks, sched, last_marked,
                   enq_last2, decision, last_run>>

\* ---- age of the detection results process_frame applies ----
\* Config.max_detection_result_age_seconds
max_detection_result_age_seconds == 45

\* the camera of the scene
AgeCamera == "camA"

\* time that passes between two steps of the scene: a frame period of a slow
\* loop, a detection that waits for the GPU
AgeDeltas == {20, 50}

AgeInit ==
    /\ age_now = Now
    /\ age_ts = [f \in 1..MaxSubmit |-> 0]
    /\ age_applied = <<>>

\* time.time() moves on (process_frame reads it at line 921)
ClockAdvance(delta) ==
    /\ age_now + delta <= Now + AgeHorizon
    /\ age_now' = age_now + delta
    /\ UNCHANGED <<age_ts, age_applied>>

\* process_frame lines 988-989: the frame is submitted with ts = now
FrameSubmit(cid) ==
    /\ submitted[cid] < AgeFrames
    /\ submit(cid)
    /\ age_ts' = [age_ts EXCEPT ![submitted[cid] + 1] = age_now]
    /\ UNCHANGED <<age_now, age_applied>>

\* DetectionResult.ts: the ts of the frame the result was computed from
\* (gpu_arbiter.py lines 114 and 129)
ResultTs(res) == age_ts[res.frame]

\* process_frame lines 944-951: a result with a new seq is applied to the tracker
ApplyResult(cid) ==
    /\ ConsumeResult(cid)
    /\ age_applied' = Append(age_applied,
                             [seq |-> results[cid].seq,
                              age |-> age_now - ResultTs(results[cid])])
    /\ UNCHANGED <<age_now, age_ts>>

\* ---- AdaptiveScheduler.should_run_recognition, call after call ----
\* Config.embed_refresh_seconds_unknown
embed_refresh_seconds_unknown == 15

ShouldRunModes == {"idle", "normal", "burst"}

\* Track.last_embed_ts: never embedded, or embedded some time ago (below, at and
\* above the refresh periods)
EmbedTimes == {0, Now - 3, Now - 5, Now - 15, Now - 20, Now - 500}

\* Track.force_recognition_until_ts: never forced, a window that ended, a
\* window that is running
ForceUntils == {0, Now - 10, Now + 100}

ShouldRunInit == srr_call = NoCall

\* one call of should_run_recognition(track, now=Now) on a scheduler in the given
\* mode
ShouldRunRecognition(mode, person_id, last_embed_ts, force_until) ==
    LET st == [SchedulerInit(Now) EXCEPT !.mode = mode]
        tr == [NewTrack(Now) EXCEPT !.person_id = person_id,
                                    !.last_embed_ts = last_embed_ts,
                                    !.force_recognition_until_ts = force_until]
    IN srr_call' = [made |-> TRUE, mode |-> mode, tr |-> tr,
                    allowed |-> should_run_recognition(st, tr, Now)]

\* ---- the gallery match (vision/recognizer.py, _match_embedding) ----
\* Config.distinct_sim_margin
distinct_sim_margin == 5

\* L2-normalised embeddings, components in 1/10: the dot product of two of them is
\* a similarity in 1/100
GalleryVectors == {<<10, 0>>, <<8, 6>>, <<6, 8>>, <<0, 10>>}

\* a row of the gallery matrix with its gallery_meta entry
GalleryEntries == [emp : Employees, vec : GalleryVectors]

Galleries == UNION {[1..n -> GalleryEntries] : n \in 0..MaxGallery}

Dot(a, b) == a[1] * b[1] + a[2] * b[2]

\* sims = gallery_embs @ emb
Sims(gallery, emb) == [i \in DOMAIN gallery |-> Dot(gallery[i].vec, emb)]

\* np.argmax: the first index that holds the maximum
ArgMax(sims) ==
    CHOOSE i \in DOMAIN sims :
       /\ \A j \in DOMAIN sims : sims[j] <= sims[i]
       /\ \A j \in DOMAIN sims : j < i => sims[j] < sims[i]

\* match_gallery; rows are numbered from 1, idx 0 stands for -1
match_gallery(emb, gallery) ==
    IF gallery = <<>>
       THEN [idx |-> 0, sim |-> -100]
       ELSE [idx |-> ArgMax(Sims(gallery, emb)),
             sim |-> Sims(gallery, emb)[ArgMax(Sims(gallery, emb))]]

\* AttendanceRuntime._match_embedding on the gallery of the camera's company
match_embedding(gallery, emb) ==
    IF gallery = <<>>
       THEN [person_id |-> NoId, score |-> -100]
       ELSE LET m == match_gallery(emb, gallery)
            IN IF m.idx # 0 /\ m.idx <= Len(gallery)
                  THEN [person_id |-> gallery[m.idx].emp, score |-> m.sim]
                  ELSE [person_id |-> NoId, score |-> m.sim]

MatchInit == mt_call = NoCall

\* one call of the recognizer's match_fn
MatchCall(gallery, emb) ==
    mt_call' = [made |-> TRUE, gallery |-> gallery, emb |-> emb,
                result |-> match_embedding(gallery, emb)]

\* ---- MotionGate (vision/motion_gate.py); scores in 1/1000, ratio in 1/100 ----
\* Config.motion_threshold, motion_hysteresis_ratio, motion_cooldown_seconds
motion_threshold == 20

motion_hysteresis_ratio == 70

motion_cooldown_seconds == 40

\* update lines 108-109
on_th == motion_threshold

off_th == (motion_threshold * motion_hysteresis_ratio) \div 100

\* fraction of changed pixels of a frame: none, at and just above off_th, just
\* below and at on_th, above
MotionScores == {0, 14, 15, 19, 20, 30}

\* time between two updates: inside the cooldown, the cooldown
MotionDeltas == {10, 40}

MotionStateInit ==
    [active |-> FALSE, last_change_ts |-> 0, last_motion_ts |-> 0, last_score |-> 0]

\* changed_at: the time of the last update on which the flag changed, 0 if none
NoMotionCall == [made |-> FALSE, changed_at |-> 0]

MotionInit ==
    /\ mg_state = MotionStateInit
    /\ mg_prev = FALSE
    /\ mg_now = Now
    /\ mg_call = NoMotionCall
    /\ mg_calls = 0

\* update lines 111-115
DesiredActive(active, score) ==
    IF score >= on_th THEN TRUE
    ELSE IF score <= off_th THEN FALSE
    ELSE active

CooldownAlways(st, now_) == TRUE

\* update line 118
CooldownElapsed(st, now_) == (now_ - st.last_change_ts) >= motion_cooldown_seconds

\* update lines 106-125 on a frame with the given score
MotionGateUpdate(st, score, now_) ==
    LET desired == DesiredActive(st.active, score)
        s1 == [st EXCEPT !.last_score = score]
        s2 == IF desired # st.active /\ CooldownElapsed(st, now_)
                 THEN [s1 EXCEPT !.active = desired, !.last_change_ts = now_]
                 ELSE s1
    IN IF s2.active THEN [s2 EXCEPT !.last_motion_ts = now_] ELSE s2

\* the first frame only fills _prev_gray (lines 61-64)
MotionGateFirst(st) == [st EXCEPT !.last_score = 0]

\* MotionGate.update(frame, now), delta after the previous update; score is the
\* fraction of changed pixels between the frame and the previous one
MotionUpdate(delta, score) ==
    /\ mg_calls < MaxMotionCalls
    /\ LET now_ == mg_now + delta
           post == IF mg_prev THEN MotionGateUpdate(mg_state, score, now_)
                   ELSE MotionGateFirst(mg_state)
       IN /\ mg_state' = post
          /\ mg_now' = now_
          /\ mg_call' = [made |-> TRUE, pre |-> mg_state, first |-> ~mg_prev,
                         score |-> IF mg_prev THEN score ELSE 0,
                         active |-> IF mg_prev THEN post.active ELSE FALSE,
                         changed_at |-> IF post.active # mg_state.active
                                           THEN now_ ELSE mg_call.changed_at]
    /\ mg_prev' = TRUE
    /\ mg_calls' = mg_calls + 1

\* ---- RecognitionWorker (runtimes/recognition_worker.py) and its viewers ----
RwCamera == "cam1"

\* MJPEG generators of the camera's recognition stream, each on its own thread
Viewers == {"v1", "v2"}

RwThreads == 1..MaxThreads

RecWorkerInit ==
    /\ rw_running = FALSE
    /\ rw_entry = 0
    /\ rw_thr = [t \in RwThreads |-> "none"]
    /\ rw_spawned = 0
    /\ rw_pc = [v \in Viewers |-> "out"]
    /\ rw_joined = [v \in Viewers |-> 0]
    /\ rw_connects = 0

\* position of thread t; 0 stands for no thread
ThreadPc(t) == IF t = 0 THEN "none" ELSE rw_thr[t]

\* threads that are inside _loop
LiveThreads == {t \in RwThreads : rw_thr[t] \in {"test", "frame"}}

\* mjpeg_generator_recognition lines 61-62: the viewer registers
ViewerInc(v) ==
    /\ rw_pc[v] = "out"
    /\ rw_connects < MaxConnects
    /\ inc(RwCamera, STREAM_TYPE_ATTENDANCE)
    /\ rw_pc' = [rw_pc EXCEPT ![v] = "inced"]
    /\ rw_connects' = rw_connects + 1
    /\ UNCHANGED <<rw_running, rw_entry, rw_thr, rw_spawned, rw_joined>>

\* RecognitionWorker.start lines 44-47: the test of _running; no lock is held
WorkerStartTest(v) ==
    /\ rw_pc[v] = "inced"
    /\ rw_pc' = [rw_pc EXCEPT ![v] = IF rw_running THEN "viewing" ELSE "start_set"]
    /\ UNCHANGED <<rw_running, rw_entry, rw_thr, rw_spawned, rw_joined, rw_connects>>

\* RecognitionWorker.start lines 49-57: set _running, create and start the thread
WorkerStartSpawn(v) ==
    /\ rw_pc[v] = "start_set"
    /\ rw_spawned < MaxThreads
    /\ rw_running' = TRUE
    /\ rw_spawned' = rw_spawned + 1
    /\ rw_thr' = [rw_thr EXCEPT ![rw_spawned + 1] = "test"]
    /\ rw_entry' = rw_spawned + 1
    /\ rw_pc' = [rw_pc EXCEPT ![v] = "viewing"]
    /\ UNCHANGED <<rw_joined, rw_connects>>

\* mjpeg_generator_recognition lines 104-107: the viewer leaves; the last one
\* goes on to stop the worker
ViewerDec(v) ==
    /\ rw_pc[v] = "viewing"
    /\ dec(RwCamera, STREAM_TYPE_ATTENDANCE)
    /\ rw_pc' = [rw_pc EXCEPT ![v] = IF scm_clients'[RwCamera] = 0 THEN "stop" ELSE "out"]
    /\ UNCHANGED <<rw_running, rw_entry, rw_thr, rw_spawned, rw_joined, rw_connects>>

\* RecognitionWorker.stop lines 60-61
WorkerStopClear(v) ==
    /\ rw_pc[v] = "stop"
    /\ rw_running' = FALSE
    /\ rw_joined' = [rw_joined EXCEPT ![v] = rw_entry]
    /\ rw_pc' = [rw_pc EXCEPT ![v] = "stop_join"]
    /\ UNCHANGED <<rw_entry, rw_thr, rw_spawned, rw_connects>>

\* RecognitionWorker.stop lines 62-63: t.join(timeout=1.0) returns when the
\* thread has ended, or after 1 s while the thread is still in process_frame
WorkerStopJoin(v, timed_out) ==
    /\ rw_pc[v] = "stop_join"
    /\ \/ rw_joined[v] = 0
       \/ ThreadPc(rw_joined[v]) = "done"
       \/ timed_out /\ ThreadPc(rw_joined[v]) = "frame"
    /\ rw_pc' = [rw_pc EXCEPT ![v] = "stop_pop"]
    /\ UNCHANGED <<rw_running, rw_entry, rw_thr, rw_spawned, rw_joined, rw_connects>>

\* RecognitionWorker.stop lines 65-71
WorkerStopPop(v) ==
    /\ rw_pc[v] = "stop_pop"
    /\ rw_entry' = 0
    /\ rw_pc' = [rw_pc EXCEPT ![v] = "out"]
    /\ rw_joined' = [rw_joined EXCEPT ![v] = 0]
    /\ UNCHANGED <<rw_running, rw_thr, rw_spawned, rw_connects>>

\* RecognitionWorker._loop line 88 (the sleep and the missing frame lead back here)
WorkerLoopTest(t) ==
    /\ rw_thr[t] = "test"
    /\ rw_thr' = [rw_thr EXCEPT ![t] = IF rw_running THEN "frame" ELSE "done"]
    /\ UNCHANGED <<rw_running, rw_entry, rw_spawned, rw_pc, rw_joined, rw_connects>>

\* RecognitionWorker._loop lines 98-118: process_frame and the JPEG of one frame
WorkerLoopFrame(t) ==
    /\ rw_thr[t] = "frame"
    /\ rw_thr' = [rw_thr EXCEPT ![t] = "test"]
    /\ UNCHANGED <<rw_running, rw_entry, rw_spawned, rw_pc, rw_joined, rw_connects>>

\* ---- ServiceContainer.shutdown (core/container.py lines 99-124) ----
ShutdownInit ==
    /\ sd_pc = "idle"
    /\ sd_order = <<>>

\* lines 101-104, 111-114, 116-119: enroller, HLS writers and capture are stopped
ShutdownPart(at, part, then) ==
    /\ sd_pc = at
    /\ sd_order' = Append(sd_order, part)
    /\ sd_pc' = then

\* lines 106-109: rec_worker.stop_all(); RecognitionWorker defines start, stop,
\* get_latest_annotated, get_latest_jpeg and _loop but no stop_all, so the call
\* raises AttributeError, which `except Exception: pass` swallows
ShutdownRecWorkers ==
    /\ ShutdownPart("rec_worker", "rec_worker", "hls")
    /\ UNCHANGED rwVars

\* AttendanceRuntime.shutdown lines 431-435 through DBWriter.stop
ShutdownDbWriterDone ==
    /\ sd_pc = "db_writer"
    /\ stop_pc = "stopped"
    /\ sd_pc' = "erp"
    /\ UNCHANGED sd_order

\* AttendanceRuntime.shutdown lines 437-443: erp_queue.stop(); ERPPushQueue
\* defines enqueue and _run but no stop, so the call raises AttributeError, which
\* is swallowed; _stop is not set and `finally` drops the reference to the queue
ShutdownErp ==
    /\ sd_pc = "erp"
    /\ mk_erp_on' = FALSE
    /\ sd_pc' = "returned"
    /\ UNCHANGED <<sd_order, mk_decided, mk_backend, mk_erp, mk_voiced>>

(***************************************************************************)
(* Specifications                                                          *)
(***************************************************************************)
vars == <<arbVars, voiceVars, attVars, unitVars, serviceVars, frameVars, lifeVars>>

Init ==
    /\ ArbInit /\ VoiceInit /\ AttInit /\ RecInit /\ TrkInit /\ WriterInit /\ SchedInit
    /\ ErpInit /\ ScmInit /\ MarksInit
    /\ AgeInit /\ ShouldRunInit /\ MatchInit /\ MotionInit
    /\ RecWorkerInit /\ ShutdownInit

ArbNext ==
    \/ \E cid \in ArbCameras : submit(cid) /\ UNCHANGED <<voiceVars, attVars, unitVars, serviceVars, frameVars, lifeVars>>
    \/ LoopPickup /\ UNCHANGED <<voiceVars, attVars, unitVars, serviceVars, frameVars, lifeVars>>
    \/ \E raised \in BOOLEAN, faces \in FaceCounts :
          LoopStore(raised, faces) /\ UNCHANGED <<voiceVars, attVars, unitVars, serviceVars, frameVars, lifeVars>>
    \/ \E cid \in ArbCameras : ConsumeResult(cid) /\ UNCHANGED <<voiceVars, attVars, unitVars, serviceVars, frameVars, lifeVars>>

\* the GPU arbiter with its submitting cameras and the consuming frame loop
SpecArbiter == Init /\ [][ArbNext]_vars

VoiceNext ==
    \/ \E t \in VoiceThreads, k \in Companies : PushAcquire(t, k) /\ UNCHANGED <<arbVars, attVars, unitVars, serviceVars, frameVars, lifeVars>>
    \/ \E t \in VoiceThreads : PushReadSeq(t) /\ UNCHANGED <<arbVars, attVars, unitVars, serviceVars, frameVars, lifeVars>>
    \/ \E t \in VoiceThreads : PushAppend(t) /\ UNCHANGED <<arbVars, attVars, unitVars, serviceVars, frameVars, lifeVars>>
    \/ \E t \in VoiceThreads : PushReturn(t) /\ UNCHANGED <<arbVars, attVars, unitVars, serviceVars, frameVars, lifeVars>>

\* the voice-event log with its publishing threads
SpecVoice == Init /\ [][VoiceNext]_vars

\* the companies the long-poll scene publishes to and reads from
ReaderCompanies == {"acme", "globex"}

ReaderNext ==
    \/ \E k \in ReaderCompanies, after_seq \in AfterSeqs, limit \in Limits, wait_ms \in WaitMs :
          GetAcquire(k, after_seq, limit, wait_ms) /\ UNCHANGED <<arbVars, attVars, unitVars, serviceVars, frameVars, lifeVars>>
    \/ DeadlineElapses /\ UNCHANGED <<arbVars, attVars, unitVars, serviceVars, frameVars, lifeVars>>
    \/ GetCheck /\ UNCHANGED <<arbVars, attVars, unitVars, serviceVars, frameVars, lifeVars>>
    \/ GetTimeout /\ UNCHANGED <<arbVars, attVars, unitVars, serviceVars, frameVars, lifeVars>>
    \/ GetReacquire /\ UNCHANGED <<arbVars, attVars, unitVars, serviceVars, frameVars, lifeVars>>
    \/ GetReturn /\ UNCHANGED <<arbVars, attVars, unitVars, serviceVars, frameVars, lifeVars>>

PublisherNext ==
    \/ \E k \in ReaderCompanies : PushAcquire("t1", k) /\ UNCHANGED <<arbVars, attVars, unitVars, serviceVars, frameVars, lifeVars>>
    \/ PushReadSeq("t1") /\ UNCHANGED <<arbVars, attVars, unitVars, serviceVars, frameVars, lifeVars>>
    \/ PushAppend("t1") /\ UNCHANGED <<arbVars, attVars, unitVars, serviceVars, frameVars, lifeVars>>
    \/ PushReturn("t1") /\ UNCHANGED <<arbVars, attVars, unitVars, serviceVars, frameVars, lifeVars>>

VoiceReaderNext == ReaderNext \/ PublisherNext

\* a thread that can take a step of its call takes it eventually; the deadline of
\* a long-poll is not required to come
ReaderProgress ==
    /\ WF_vars(GetCheck /\ UNCHANGED <<arbVars, attVars, unitVars, serviceVars, frameVars, lifeVars>>)
    /\ WF_vars(GetTimeout /\ UNCHANGED <<arbVars, attVars, unitVars, serviceVars, frameVars, lifeVars>>)
    /\ WF_vars(GetReacquire /\ UNCHANGED <<arbVars, attVars, unitVars, serviceVars, frameVars, lifeVars>>)
    /\ WF_vars(GetReturn /\ UNCHANGED <<arbVars, attVars, unitVars, serviceVars, frameVars, lifeVars>>)
    /\ WF_vars(PushReadSeq("t1") /\ UNCHANGED <<arbVars, attVars, unitVars, serviceVars, frameVars, lifeVars>>)
    /\ WF_vars(PushAppend("t1") /\ UNCHANGED <<arbVars, attVars, unitVars, serviceVars, frameVars, lifeVars>>)
    /\ WF_vars(PushReturn("t1") /\ UNCHANGED <<arbVars, attVars, unitVars, serviceVars, frameVars, lifeVars>>)

\* one publishing thread and one long-polling reader of the voice-event log
SpecVoiceReader == Init /\ [][VoiceReaderNext]_vars /\ ReaderProgress

RecognizerNext ==
    \E delta \in RecDeltas, out \in RecUnitOutcomes, g \in HoldGeoms :
       UpdateTracksRun(delta, out, g) /\ UNCHANGED <<pipelineVars, trkVars, wrVars, schVars, serviceVars, frameVars, lifeVars>>

\* Recognizer.update_tracks applied to one track, run after run
SpecRecognizer == Init /\ [][RecognizerNext]_vars

\* detection results of up to MaxDets faces
DetectionLists == UNION {[1..n -> Boxes] : n \in 0..MaxDets}

TrackerNext ==
    \/ \E dets \in DetectionLists, delta \in DetectionDeltas :
          apply_detections(dets, delta) /\ UNCHANGED <<pipelineVars, recVars, wrVars, schVars, serviceVars, frameVars, lifeVars>>
    \/ \E tid \in 1..(MaxDets * MaxDetCalls) :
          TrackIdentified(tid, "e42") /\ UNCHANGED <<pipelineVars, recVars, wrVars, schVars, serviceVars, frameVars, lifeVars>>

\* the TrackerManager of one camera fed with detection results
SpecTracker == Init /\ [][TrackerNext]_vars

WriterNext ==
    \/ \E job \in 1..MaxJobs : enqueue(job) /\ UNCHANGED <<pipelineVars, recVars, trkVars, schVars, serviceVars, frameVars, lifeVars>>
    \/ LoopTest /\ UNCHANGED <<pipelineVars, recVars, trkVars, schVars, serviceVars, frameVars, lifeVars>>
    \/ LoopGet /\ UNCHANGED <<pipelineVars, recVars, trkVars, schVars, serviceVars, frameVars, lifeVars>>
    \/ \E raised \in BOOLEAN : LoopWrite(raised) /\ UNCHANGED <<pipelineVars, recVars, trkVars, schVars, serviceVars, frameVars, lifeVars>>
    \/ StopSet /\ UNCHANGED <<pipelineVars, recVars, trkVars, schVars, serviceVars, frameVars, lifeVars>>
    \/ StopDrain /\ UNCHANGED <<pipelineVars, recVars, trkVars, schVars, serviceVars, frameVars, lifeVars>>
    \/ StopSentinel /\ UNCHANGED <<pipelineVars, recVars, trkVars, schVars, serviceVars, frameVars, lifeVars>>
    \/ StopJoin /\ UNCHANGED <<pipelineVars, recVars, trkVars, schVars, serviceVars, frameVars, lifeVars>>

\* the DB writer: callers of enqueue, the worker thread, one caller of stop
SpecWriter == Init /\ [][WriterNext]_vars

SchedulerNext ==
    \/ \E delta \in SchedDeltas, motion_active \in BOOLEAN, tracks_present \in BOOLEAN,
          event \in BOOLEAN :
          SchedUpdate(delta, motion_active, tracks_present, event)
             /\ UNCHANGED <<pipelineVars, recVars, trkVars, wrVars, serviceVars, frameVars, lifeVars>>
    \/ \E delta \in SchedDeltas :
          SchedForceBurst(delta) /\ UNCHANGED <<pipelineVars, recVars, trkVars, wrVars, serviceVars, frameVars, lifeVars>>

\* the AdaptiveScheduler of one camera, called by the frame loop and the recognizer
SpecScheduler == Init /\ [][SchedulerNext]_vars

\* the loop of the DB writer thread
WriterLoopNext ==
    \/ LoopTest /\ UNCHANGED <<pipelineVars, recVars, trkVars, schVars, serviceVars, frameVars, lifeVars>>
    \/ LoopGet /\ UNCHANGED <<pipelineVars, recVars, trkVars, schVars, serviceVars, frameVars, lifeVars>>
    \/ \E raised \in BOOLEAN :
          LoopWrite(raised) /\ UNCHANGED <<pipelineVars, recVars, trkVars, schVars, serviceVars, frameVars, lifeVars>>

ErpNext ==
    \/ \E job \in 1..MaxErpJobs : erp_enqueue(job) /\ UNCHANGED <<pipelineVars, unitVars, scmVars, mkVars, frameVars, lifeVars>>
    \/ ErpGet /\ UNCHANGED <<pipelineVars, unitVars, scmVars, mkVars, frameVars, lifeVars>>
    \/ \E raised \in BOOLEAN : ErpAttempt(raised) /\ UNCHANGED <<pipelineVars, unitVars, scmVars, mkVars, frameVars, lifeVars>>
    \/ ErpReport /\ UNCHANGED <<pipelineVars, unitVars, scmVars, mkVars, frameVars, lifeVars>>

\* the ERP push queue: callers of enqueue and the worker thread
SpecErp == Init /\ [][ErpNext]_vars

QueuesNext ==
    \/ \E job \in 1..MaxJobs :
          enqueue(job) /\ UNCHANGED <<pipelineVars, recVars, trkVars, schVars, serviceVars, frameVars, lifeVars>>
    \/ WriterLoopNext
    \/ ErpNext

\* the two job queues of the runtime, each with its callers and its worker; nobody
\* calls stop
SpecQueues == Init /\ [][QueuesNext]_vars

\* the cameras of the scene that follows the two workers through failures
WorkerCameras == {"camA", "camB"}

\* the DB writer thread with the frame loops that enqueue jobs; nobody calls stop
WriterWorkerNext ==
    \/ \E job \in 1..WorkerJobs :
          enqueue(job) /\ UNCHANGED <<pipelineVars, recVars, trkVars, schVars, serviceVars, frameVars, lifeVars>>
    \/ WriterLoopNext

\* the arbiter thread with the frame loops that submit frames
ArbiterWorkerNext ==
    \/ \E cid \in WorkerCameras :
          /\ SumOver(submitted, ArbCameras) < WorkerFrames
          /\ submit(cid) /\ UNCHANGED <<voiceVars, attVars, unitVars, serviceVars, frameVars, lifeVars>>
    \/ LoopPickup /\ UNCHANGED <<voiceVars, attVars, unitVars, serviceVars, frameVars, lifeVars>>
    \/ \E raised \in BOOLEAN, faces \in FaceCounts :
          LoopStore(raised, faces) /\ UNCHANGED <<voiceVars, attVars, unitVars, serviceVars, frameVars, lifeVars>>

\* The DB writer and the GPU arbiter run side by side; write_fn and detect_fn may
\* raise at every call.
WorkersNext == WriterWorkerNext \/ ArbiterWorkerNext

\* a worker thread that can take the next step of its loop takes it eventually;
\* frame loops are free to stop submitting and enqueuing
WorkersProgress ==
    /\ WF_vars(WriterLoopNext)
    /\ WF_vars(LoopPickup /\ UNCHANGED <<voiceVars, attVars, unitVars, serviceVars, frameVars, lifeVars>>)
    /\ WF_vars(\E raised \in BOOLEAN, faces \in FaceCounts :
                  LoopStore(raised, faces) /\ UNCHANGED <<voiceVars, attVars, unitVars, serviceVars, frameVars, lifeVars>>)

SpecWorkers == Init /\ [][WorkersNext]_vars /\ WorkersProgress

StreamClientsNext ==
    \/ \E cam \in ScmCameras, stream_type \in StreamTypeInputs :
          inc(cam, stream_type) /\ UNCHANGED <<pipelineVars, unitVars, erpVars, mkVars, frameVars, lifeVars>>
    \/ \E cam \in ScmCameras, stream_type \in StreamTypeInputs :
          dec(cam, stream_type) /\ UNCHANGED <<pipelineVars, unitVars, erpVars, mkVars, frameVars, lifeVars>>

\* the StreamClientManager called by the MJPEG generators of its viewers
SpecStreamClients == Init /\ [][StreamClientsNext]_vars

MarksNext ==
    \/ \E stream_type \in VALID_STREAM_TYPES :
          inc(MarkCamera, stream_type) /\ UNCHANGED <<pipelineVars, unitVars, erpVars, mkVars, frameVars, lifeVars>>
    \/ \E stream_type \in VALID_STREAM_TYPES :
          dec(MarkCamera, stream_type) /\ UNCHANGED <<pipelineVars, unitVars, erpVars, mkVars, frameVars, lifeVars>>
    \/ EnableErp /\ UNCHANGED <<pipelineVars, unitVars, erpVars, scmVars, frameVars, lifeVars>>
    \/ MarkEnqueue(MarkCamera)
          /\ UNCHANGED <<pipelineVars, recVars, trkVars, schVars, erpVars, scmVars, frameVars, lifeVars>>
    \/ LoopTest /\ UNCHANGED <<pipelineVars, recVars, trkVars, schVars, serviceVars, frameVars, lifeVars>>
    \/ LoopGet /\ UNCHANGED <<pipelineVars, recVars, trkVars, schVars, serviceVars, frameVars, lifeVars>>
    \/ \E raises \in BOOLEAN :
          WriteAttendanceJob(raises)
             /\ UNCHANGED <<arbVars, attVars, recVars, trkVars, schVars, scmVars, frameVars, lifeVars>>

\* one camera with its viewers, its frame loop and the DB writer thread that
\* writes its marks to the backend
SpecMarks == Init /\ [][MarksNext]_vars

\* what the surroundings of a frame loop can do: every input the model knows
FullEnv ==
    [deltas |-> FrameDeltas, events |-> TrackEvents, motion |-> BOOLEAN,
     outs |-> RecOutcomes, geom |-> BOOLEAN, gates |-> Gates,
     max_queue |-> max_queue]

\* the scene where two tracks or two cameras watch the same employee: tracks stay,
\* the face is matched to e42 or to nobody, no anti-spoof rejection
PairEnv ==
    [deltas |-> FrameDeltas, events |-> {"keep"}, motion |-> {FALSE},
     outs |-> {o \in RecOutcomes : o.emb /\ o.id \in {NoId, "e42"}},
     geom |-> {FALSE}, gates |-> {"skip", "pass"}, max_queue |-> max_queue]

\* DBWriter(max_queue=1): a writer queue that one waiting job fills
NarrowQueue == 1

\* two tracks whose faces are matched to either employee, in front of a DBWriter
\* with room for one job
NarrowEnv ==
    [deltas |-> FrameDeltas, events |-> {"keep"}, motion |-> {FALSE},
     outs |-> {o \in RecOutcomes : o.id # NoId},
     geom |-> {FALSE}, gates |-> Gates, max_queue |-> NarrowQueue]

\* the same scene seen by two cameras whose workers read the clock 0.4 s apart
TwoCameraEnv ==
    [PairEnv EXCEPT !.deltas = {40}, !.outs = {o \in RecOutcomes : o.id = "e42"}]

\* the frame loop of camera c with at most cap tracks and maxf frames
CameraNext(c, cap, maxf, env) ==
    \/ \E delta \in env.deltas, det_applied \in BOOLEAN, spawn \in 0..cap,
          motion_active \in env.motion :
          \E evt \in [1..Len(tracks[c]) -> env.events] :
             FrameBegin(c, cap, maxf, delta, det_applied, evt, spawn, motion_active)
    \/ \E out \in env.outs, geom_ok \in env.geom : Recognize(c, out, geom_ok)
    \/ RecognizeSkip(c)
    \/ \E gates \in env.gates : AttendQueue(c, gates, env.max_queue)

AttNext ==
    \/ CameraNext("cam1", MaxTracks, MaxFrames, FullEnv) /\ UNCHANGED <<arbVars, voiceVars, unitVars, serviceVars, frameVars, lifeVars>>
    \/ DBWriterLoop /\ UNCHANGED <<arbVars, voiceVars, unitVars, serviceVars, frameVars, lifeVars>>

\* one camera: its recognition worker and the DB writer worker
SpecAttendance == Init /\ [][AttNext]_vars

TwoTrackNext ==
    \/ CameraNext("cam1", PairTracks, PairFrames, PairEnv) /\ UNCHANGED <<arbVars, voiceVars, unitVars, serviceVars, frameVars, lifeVars>>
    \/ DBWriterLoop /\ UNCHANGED <<arbVars, voiceVars, unitVars, serviceVars, frameVars, lifeVars>>

\* one camera that can hold two tracks at a time
SpecTwoTracks == Init /\ [][TwoTrackNext]_vars

TwoCameraNext ==
    \/ \E c \in AttCameras :
          CameraNext(c, MaxTracks, PairFrames, TwoCameraEnv) /\ UNCHANGED <<arbVars, voiceVars, unitVars, serviceVars, frameVars, lifeVars>>
    \/ DBWriterLoop /\ UNCHANGED <<arbVars, voiceVars, unitVars, serviceVars, frameVars, lifeVars>>

\* two cameras of one company: their recognition workers run concurrently and
\* share the AttendanceDebouncer and the DBWriter
SpecTwoCameras == Init /\ [][TwoCameraNext]_vars

NarrowQueueNext ==
    \/ CameraNext("cam1", PairTracks, PairFrames, NarrowEnv) /\ UNCHANGED <<arbVars, voiceVars, unitVars, serviceVars, frameVars, lifeVars>>
    \/ DBWriterLoop /\ UNCHANGED <<arbVars, voiceVars, unitVars, serviceVars, frameVars, lifeVars>>

\* one camera with two tracks in front of a DBWriter with room for one job
SpecNarrowQueue == Init /\ [][NarrowQueueNext]_vars

DetAgeNext ==
    \/ \E delta \in AgeDeltas :
          ClockAdvance(delta)
             /\ UNCHANGED <<pipelineVars, unitVars, serviceVars, srr_call, mt_call, motionVars, lifeVars>>
    \/ FrameSubmit(AgeCamera)
          /\ UNCHANGED <<voiceVars, attVars, unitVars, serviceVars, srr_call, mt_call, motionVars, lifeVars>>
    \/ LoopPickup /\ UNCHANGED <<voiceVars, attVars, unitVars, serviceVars, frameVars, lifeVars>>
    \/ \E raised \in BOOLEAN, faces \in FaceCounts :
          LoopStore(raised, faces) /\ UNCHANGED <<voiceVars, attVars, unitVars, serviceVars, frameVars, lifeVars>>
    \/ ApplyResult(AgeCamera)
          /\ UNCHANGED <<voiceVars, attVars, unitVars, serviceVars, srr_call, mt_call, motionVars, lifeVars>>

\* the frame loop of one camera and the arbiter thread, with the clock
SpecDetAge == Init /\ [][DetAgeNext]_vars

ShouldRunNext ==
    \E mode \in ShouldRunModes, person_id \in Employees \cup {NoId},
       last_embed_ts \in EmbedTimes, force_until \in ForceUntils :
       ShouldRunRecognition(mode, person_id, last_embed_ts, force_until)
          /\ UNCHANGED <<pipelineVars, unitVars, serviceVars, ageVars, mt_call, motionVars, lifeVars>>

\* should_run_recognition called by the recognizer for a track
SpecShouldRun == Init /\ [][ShouldRunNext]_vars

MatchNext ==
    \E gallery \in Galleries, emb \in GalleryVectors :
       MatchCall(gallery, emb)
          /\ UNCHANGED <<pipelineVars, unitVars, serviceVars, ageVars, srr_call, motionVars, lifeVars>>

\* the gallery match called by the recognizer for an embedding
SpecMatch == Init /\ [][MatchNext]_vars

MotionNext ==
    \E delta \in MotionDeltas, score \in MotionScores :
       MotionUpdate(delta, score)
          /\ UNCHANGED <<pipelineVars, unitVars, serviceVars, ageVars, srr_call, mt_call, lifeVars>>

\* the MotionGate of one camera, updated frame after frame
SpecMotion == Init /\ [][MotionNext]_vars

ViewersNext ==
    \/ \E v \in Viewers :
          ViewerInc(v) /\ UNCHANGED <<pipelineVars, unitVars, erpVars, mkVars, frameVars, sdVars>>
    \/ \E v \in Viewers :
          ViewerDec(v) /\ UNCHANGED <<pipelineVars, unitVars, erpVars, mkVars, frameVars, sdVars>>
    \/ \E v \in Viewers :
          WorkerStartTest(v) /\ UNCHANGED <<pipelineVars, unitVars, serviceVars, frameVars, sdVars>>
    \/ \E v \in Viewers :
          WorkerStartSpawn(v) /\ UNCHANGED <<pipelineVars, unitVars, serviceVars, frameVars, sdVars>>
    \/ \E v \in Viewers :
          WorkerStopClear(v) /\ UNCHANGED <<pipelineVars, unitVars, serviceVars, frameVars, sdVars>>
    \/ \E v \in Viewers, timed_out \in BOOLEAN :
          WorkerStopJoin(v, timed_out) /\ UNCHANGED <<pipelineVars, unitVars, serviceVars, frameVars, sdVars>>
    \/ \E v \in Viewers :
          WorkerStopPop(v) /\ UNCHANGED <<pipelineVars, unitVars, serviceVars, frameVars, sdVars>>
    \/ \E t \in RwThreads :
          WorkerLoopTest(t) /\ UNCHANGED <<pipelineVars, unitVars, serviceVars, frameVars, sdVars>>
    \/ \E t \in RwThreads :
          WorkerLoopFrame(t) /\ UNCHANGED <<pipelineVars, unitVars, serviceVars, frameVars, sdVars>>

\* the viewers of one camera's recognition stream, each on its own thread, and
\* the recognition threads they start
SpecViewers == Init /\ [][ViewersNext]_vars

\* what runs before shutdown is called: a viewer starts the recognition thread,
\* marks are enqueued for the DB writer and the ERP queue
BeforeShutdownNext ==
    \/ sd_pc = "idle" /\ ViewerInc("v1")
          /\ UNCHANGED <<pipelineVars, unitVars, erpVars, mkVars, frameVars, sdVars>>
    \/ sd_pc = "idle" /\ WorkerStartTest("v1")
          /\ UNCHANGED <<pipelineVars, unitVars, serviceVars, frameVars, sdVars>>
    \/ sd_pc = "idle" /\ WorkerStartSpawn("v1")
          /\ UNCHANGED <<pipelineVars, unitVars, serviceVars, frameVars, sdVars>>
    \/ sd_pc = "idle" /\ EnableErp
          /\ UNCHANGED <<pipelineVars, unitVars, erpVars, scmVars, frameVars, lifeVars>>
    \/ \E job \in 1..ShutdownJobs :
          sd_pc = "idle" /\ enqueue(job)
             /\ UNCHANGED <<pipelineVars, recVars, trkVars, schVars, serviceVars, frameVars, lifeVars>>
    \/ \E job \in 1..ShutdownErpJobs :
          sd_pc = "idle" /\ mk_erp_on /\ erp_enqueue(job)
             /\ UNCHANGED <<pipelineVars, unitVars, scmVars, mkVars, frameVars, lifeVars>>

\* the worker threads
ShutdownWorkersNext ==
    \/ WriterLoopNext
    \/ ErpGet /\ UNCHANGED <<pipelineVars, unitVars, scmVars, mkVars, frameVars, lifeVars>>
    \/ ErpAttempt(FALSE) /\ UNCHANGED <<pipelineVars, unitVars, scmVars, mkVars, frameVars, lifeVars>>
    \/ ErpReport /\ UNCHANGED <<pipelineVars, unitVars, scmVars, mkVars, frameVars, lifeVars>>
    \/ \E t \in RwThreads :
          WorkerLoopTest(t) /\ UNCHANGED <<pipelineVars, unitVars, serviceVars, frameVars, sdVars>>
    \/ \E t \in RwThreads :
          WorkerLoopFrame(t) /\ UNCHANGED <<pipelineVars, unitVars, serviceVars, frameVars, sdVars>>

\* ServiceContainer.shutdown, step after step
ShutdownCallNext ==
    \/ ShutdownPart("idle", "enroller", "rec_worker")
          /\ UNCHANGED <<pipelineVars, unitVars, serviceVars, frameVars, rwVars>>
    \/ ShutdownRecWorkers /\ UNCHANGED <<pipelineVars, unitVars, serviceVars, frameVars>>
    \/ ShutdownPart("hls", "hls", "capture")
          /\ UNCHANGED <<pipelineVars, unitVars, serviceVars, frameVars, rwVars>>
    \/ ShutdownPart("capture", "capture", "attendance")
          /\ UNCHANGED <<pipelineVars, unitVars, serviceVars, frameVars, rwVars>>
    \/ ShutdownPart("attendance", "attendance", "db_writer")
          /\ UNCHANGED <<pipelineVars, unitVars, serviceVars, frameVars, rwVars>>
    \/ sd_pc = "db_writer" /\ StopSet
          /\ UNCHANGED <<pipelineVars, recVars, trkVars, schVars, serviceVars, frameVars, lifeVars>>
    \/ sd_pc = "db_writer" /\ StopDrain
          /\ UNCHANGED <<pipelineVars, recVars, trkVars, schVars, serviceVars, frameVars, lifeVars>>
    \/ sd_pc = "db_writer" /\ StopSentinel
          /\ UNCHANGED <<pipelineVars, recVars, trkVars, schVars, serviceVars, frameVars, lifeVars>>
    \/ sd_pc = "db_writer" /\ StopJoin
          /\ UNCHANGED <<pipelineVars, recVars, trkVars, schVars, serviceVars, frameVars, lifeVars>>
    \/ ShutdownDbWriterDone
          /\ UNCHANGED <<pipelineVars, unitVars, serviceVars, frameVars, rwVars>>
    \/ ShutdownErp
          /\ UNCHANGED <<pipelineVars, unitVars, erpVars, scmVars, frameVars, rwVars>>

ShutdownNext == BeforeShutdownNext \/ ShutdownWorkersNext \/ ShutdownCallNext

\* the system with its workers running and one caller of shutdown
SpecShutdown == Init /\ [][ShutdownNext]_vars

\* ---- AttendanceDebouncer.consider on one track, frame after frame ----
\* time between two frames of the track's camera
VerifyDeltas == {200, 400}

\* the track as the detector keeps seeing it, or missed by the last detections
VerifyGeoms == {GoodGeom, [GoodGeom EXCEPT !.det_misses = 2]}

\* process_frame for one track, delta after its previous frame: the iteration of
\* update_tracks (lines 75-244) when run says should_run_recognition admitted
\* the track, then the iteration of the attendance loop (lines 1011-1106), where
\* consider is called for a known track that passes the gates
VerifyFrame(delta, run, out, g, gates) ==
    LET pre == OlderTrack(rec_track, delta)
        st0 == OlderSched(rec_sched, delta)
        r == IF run THEN RecognizeTrack(pre, st0, out, HoldGeometryOk(g), Now)
             ELSE [tr |-> pre, st |-> st0, reasons |-> <<>>]
        called == r.tr.person_id # NoId /\ gates # "skip"
        d == consider(r.tr, r.st, last_marked, Now)
    IN /\ r.tr.stable_id_hits <= MaxHits
       /\ rec_track' = IF called THEN d.tr ELSE r.tr
       /\ rec_sched' = IF called THEN d.st ELSE r.st
       /\ rec_call' =
             IF called
                THEN [made |-> TRUE, called |-> TRUE,
                      open |-> r.tr.verify_target_id # NoId,
                      age |-> Now - r.tr.verify_started_ts,
                      samples |-> IF d.reason = "verify_timeout"
                                     THEN Len(r.tr.verify_samples)
                                          + (IF r.tr.last_embed_ts # r.tr.verify_last_embed_ts
                                                THEN 1 ELSE 0)
                                     ELSE Len(d.tr.verify_samples),
                      reason |-> d.reason, job |-> d.job]
                ELSE [made |-> TRUE, called |-> FALSE]
       /\ UNCHANGED <<rec_confirmed_ts, rec_runs>>

VerifyNext ==
    \E delta \in VerifyDeltas, run \in BOOLEAN, out \in RecOutcomes,
       g \in VerifyGeoms, gates \in {"skip", "pass"} :
       VerifyFrame(delta, run, out, g, gates)
          /\ UNCHANGED <<pipelineVars, trkVars, wrVars, schVars, serviceVars, frameVars, lifeVars>>

\* the frame loop of the camera keeps running (RecognitionWorker._loop)
VerifyProgress == WF_vars(VerifyNext)

\* one track of a running camera: its recognitions and its consider calls
SpecVerification == Init /\ [][VerifyNext]_vars /\ VerifyProgress

FastModeNext ==
    \E delta \in RecDeltas, out \in FastModeOutcomes, g \in HoldGeoms :
       UpdateTracksRunCfg(LegacyFastCfg, delta, out, g)
          /\ UNCHANGED <<pipelineVars, trkVars, wrVars, schVars, serviceVars, frameVars, lifeVars>>

\* Recognizer.update_tracks applied to one track, run after run, under the
\* thresholds of the legacy fast mode
SpecFastMode == Init /\ [][FastModeNext]_vars

Next ==
    \/ ArbNext \/ VoiceNext \/ VoiceReaderNext \/ RecognizerNext \/ TrackerNext
    \/ WriterNext \/ SchedulerNext \/ AttNext \/ TwoTrackNext \/ TwoCameraNext
    \/ ErpNext \/ QueuesNext \/ WorkersNext \/ StreamClientsNext \/ MarksNext
    \/ DetAgeNext \/ ShouldRunNext \/ MatchNext \/ MotionNext
    \/ ViewersNext \/ ShutdownNext \/ VerifyNext \/ FastModeNext \/ NarrowQueueNext

Spec == Init /\ [][Next]_vars

(***************************************************************************)
(* Claims on the attendance decision                                       *)
(***************************************************************************)
\* C1: on one camera, with any number of tracks, two successful
\* DBWriter.enqueue calls for the same (company_id, employee_id) never fall
\* within one interval of length attendance_debounce_seconds.
C1_OneEnqueuePerWindow ==
    \A e \in Employees :
        enq_last2[e][1] # 0 =>
            enq_last2[e][2] - enq_last2[e][1] >= attendance_debounce_seconds

\* the consider calls of the current frames that returned a job
JobDecisions == {c \in AttCameras : decision[c].called /\ decision[c].job # NoJob}

\* C2: consider never returns a job for a track whose stable_id_hits is below
\* stable_id_confirmations at the moment the job is returned.
C2_JobNeedsStableId ==
    \A c \in JobDecisions : decision[c].stable_id_hits >= stable_id_confirmations

\* C3: consider never returns a job for a track whose last embedding is older
\* than attendance_max_embed_age_seconds at the moment the job is returned.
C3_JobNeedsFreshEmbedding ==
    \A c \in JobDecisions : decision[c].embed_age <= attendance_max_embed_age_seconds

\* votes and mean similarity of the target's samples, as the claim states them
C4_Majority(d) ==
    Cardinality({i \in DOMAIN d.samples : d.samples[i][1] = d.target})
        >= (verification_samples \div 2) + 1

C4_MeanOk(d) ==
    LET idx == {i \in DOMAIN d.samples : d.samples[i][1] = d.target}
        scores == [i \in idx |-> d.samples[i][2]]
    IN /\ idx # {}
       /\ SumOver(scores, idx) >= (similarity_threshold + borderline_margin) * Cardinality(idx)

\* C4: with verification_samples = N >= 2, consider returns a job only at the
\* end of a verification whose samples hold at least floor(N/2)+1 votes for
\* verify_target_id with mean similarity >= similarity_threshold +
\* borderline_margin; every other end of a verification (too few votes, mean too
\* low, timeout, missing target) returns no job and resets the verification state.
C4_VerifiedJobsOnly ==
    \A c \in AttCameras :
        LET d == decision[c]
        IN d.called =>
            /\ d.job # NoJob =>
                  /\ d.in_verification
                  /\ d.job.employee_id = d.target
                  /\ C4_Majority(d)
                  /\ C4_MeanOk(d)
                  /\ d.verify_cleared
            /\ (d.in_verification /\ d.job = NoJob /\ d.reason # "verify_collecting") =>
                  /\ d.verify_cleared
                  /\ \/ ~C4_Majority(d)
                     \/ ~C4_MeanOk(d)
                     \/ d.reason = "verify_timeout"
                     \/ d.target = NoId

C4_Witness ==
    \E c \in JobDecisions :
        /\ decision[c].reason = "verified"
        /\ Len(decision[c].samples) = verification_samples
        /\ decision[c].enqueued

\* C5: with two cameras of one company on concurrent recognition workers that
\* share the one AttendanceDebouncer, under every interleaving two successful
\* enqueues for the same (company_id, employee_id) are at least
\* attendance_debounce_seconds apart.
C5_SharedDebounceHolds ==
    \A e \in Employees :
        LET previous == enq_last2[e][1]
            latest == enq_last2[e][2]
        IN previous = 0 \/ latest >= previous + attendance_debounce_seconds

(***************************************************************************)
(* Claims on the GPU arbiter (checked under SpecArbiter)                   *)
(***************************************************************************)
\* C6: at every pickup for a camera the frame handed to detect_fn is the one
\* submitted last among the frames queued for it at that moment; all the other
\* queued frames are removed and counted in dropped, and no frame older than one
\* already handed to detect_fn stays queued (so it can never be detected later).
C6_PickupStep ==
    \A c \in ArbCameras :
        picked'[c] # picked[c] =>
            /\ worker'.pc = "detect" /\ worker'.cid = c
            /\ worker'.frame = SetMax(Range(frames[c]))
            /\ detected'[c] = detected[c] \cup {worker'.frame}
            /\ frames'[c] = <<>>
            /\ dropped'[c] = dropped[c] + Cardinality(Range(frames[c]) \ {worker'.frame})

C6_OlderNeverQueued ==
    \A c \in ArbCameras :
        \A f \in Range(frames[c]) : \A g \in detected[c] : f > g

C6_NewestFrameDetected == [](C6_OlderNeverQueued) /\ [][C6_PickupStep]_vars

C6_Witness ==
    \E c \in ArbCameras :
        /\ worker.pc = "detect" /\ worker.cid = c
        /\ pickup_dropped[c] >= 1
        /\ Cardinality(detected[c]) >= 2

\* C7: while every camera has a frame queued at each pickup, any K consecutive
\* pickups (K = number of cameras) serve K different cameras: between two
\* pickups of one camera every other camera is picked up.
C7_RoundRobin == NoDup(rr_window)

C7_Witness ==
    /\ Len(rr_window) = Cardinality(ArbCameras)
    /\ \E c \in ArbCameras : picked[c] >= 2

\* C8: per camera, submitted frames = frames picked up for detection + dropped
\* counter + current queue length.
C8_FrameAccounting ==
    \A c \in ArbCameras : submitted[c] = picked[c] + dropped[c] + Len(frames[c])

C8_Witness ==
    \E c \in ArbCameras :
        /\ submitted[c] >= 4
        /\ picked[c] >= 1
        /\ dropped[c] >= 2
        /\ pickup_dropped[c] >= 1
        /\ frames[c] # <<>>

\* C9: per camera, the seq of the latest result equals the number of completed
\* detections; each new result raises seq by exactly 1, and the seq the frame
\* loop has observed never decreases and never exceeds it.
C9_SeqIsCount ==
    \A c \in ArbCameras :
        /\ results[c].seq = completed[c]
        /\ last_det_seq[c] <= results[c].seq

C9_SeqStep ==
    \A c \in ArbCameras :
        /\ results'[c] # results[c] => results'[c].seq = results[c].seq + 1
        /\ last_det_seq'[c] >= last_det_seq[c]

C9_SeqIncreasing == [](C9_SeqIsCount) /\ [][C9_SeqStep]_vars

C9_Witness ==
    \E c \in ArbCameras :
        /\ completed[c] = 2
        /\ results[c].seq = 2
        /\ last_det_seq[c] = 2

(***************************************************************************)
(* Claims on the voice-event log (checked under SpecVoice)                 *)
(***************************************************************************)
\* C10: per company the seq values returned by push_voice_event are 1, 2, 3, ...
\* without gap or duplicate, the stored list is ordered by strictly increasing
\* seq, and trimming removes only the oldest events: the list always holds the
\* latest min(count, voice_max_events) seq values.
C10_VoiceSeqOrdered ==
    \A k \in Companies :
        /\ \A i \in DOMAIN voice_returned[k] : voice_returned[k][i] = i
        /\ Len(voice_events[k]) = Min2(voice_seq[k], voice_max_events)
        /\ \A i \in DOMAIN voice_events[k] :
              voice_events[k][i] = voice_seq[k] - Len(voice_events[k]) + i

C10_Witness ==
    \E k \in Companies :
        /\ voice_seq[k] > voice_max_events
        /\ Len(voice_returned[k]) = voice_seq[k]
        /\ Len(voice_events[k]) = voice_max_events

(***************************************************************************)
(* Claims on the frame loop (checked under SpecAttendance)                 *)
(***************************************************************************)
\* camera c takes the step of its frame loop for the track at its position
C18_RunOnPersistentUnknown(c) ==
    LET i == att_pc[c].idx
    IN /\ att_pc[c].phase = "rec"
       /\ att_pc'[c] # att_pc[c]
       /\ last_run'[c].idx = i
       /\ tracks[c][i].person_id = NoId
       /\ tracks[c][i].unknown_since_ts > 0
       /\ frame_now[c] - tracks[c][i].unknown_since_ts >= unknown_burst_after_seconds
       /\ last_run'[c].out.emb
       /\ last_run'[c].out.id = NoId \/ last_run'[c].out.score < similarity_threshold

C18_BurstOnRun ==
    \A c \in AttCameras :
       C18_RunOnPersistentUnknown(c) =>
          /\ sched'[c].mode = "burst"
          /\ frame_now[c] < sched'[c].burst_until_ts
          /\ \E k \in DOMAIN last_run'[c].reasons : last_run'[c].reasons[k] = "unknown_persist"
          /\ tracks'[c][att_pc[c].idx].person_id = NoId

C18_NoJobForUnknown ==
    \A c \in AttCameras :
       (/\ att_pc[c].phase = "att"
        /\ att_pc'[c] # att_pc[c]
        /\ tracks[c][att_pc[c].idx].person_id = NoId)
          => /\ ~decision'[c].called
             /\ dbq' = dbq
             /\ enq_last2' = enq_last2
             /\ last_marked' = last_marked

C19_ConsiderInsideWindow(c, e) ==
    /\ att_pc[c].phase = "att"
    /\ att_pc'[c] # att_pc[c]
    /\ decision'[c].called
    /\ tracks[c][att_pc[c].idx].person_id = e
    /\ last_marked[e] > 0
    /\ frame_now[c] - last_marked[e] < attendance_debounce_seconds

C19_Extends ==
    \A c \in AttCameras, e \in Employees :
       C19_ConsiderInsideWindow(c, e) =>
          /\ last_marked'[e] = frame_now[c]
          /\ decision'[c].job = NoJob

\* C19: while an already marked employee keeps being observed on a track less
\* than attendance_debounce_seconds after last_marked[key], each consider call
\* sets last_marked[key] to now and returns no job.
C19_SlidingDebounce == [][C19_Extends]_vars

(***************************************************************************)
(* Claims on Recognizer.update_tracks (checked under SpecRecognizer)       *)
(***************************************************************************)
\* the latest run found a known track
RunOnKnownTrack == rec_call.made /\ rec_call.tr.person_id # NoId

\* the latest run got no embedding, no match, or a match below similarity_threshold
RunBelowThreshold ==
    \/ ~rec_call.out.emb
    \/ rec_call.out.id = NoId
    \/ rec_call.out.score < similarity_threshold

\* the hold conditions as the contract states them, on the time the identity
\* was last confirmed and on what the tracker left on the track
HoldConditions ==
    /\ Now - rec_call.confirmed_ts <= identity_hold_seconds
    /\ rec_call.geom.det_misses <= identity_hold_max_det_misses
    /\ rec_call.geom.det_age <= Min2(identity_hold_seconds, hold_max_det_age)
    /\ rec_call.geom.bbox_iou >= identity_hold_min_iou
    /\ rec_call.geom.center_shift * 100
          <= identity_hold_max_center_shift_ratio * rec_call.geom.max_dim

\* C12: a known track whose recognition run yields no embedding or a
\* below-threshold match keeps its person_id exactly when the hold conditions
\* hold and otherwise becomes Unknown with stable_id_hits = 0; an identity is
\* never retained later than identity_hold_seconds after it was last confirmed.
C12_HoldOrUnknown ==
    (RunOnKnownTrack /\ RunBelowThreshold) =>
       /\ HoldConditions => rec_track.person_id = rec_call.tr.person_id
       /\ ~HoldConditions => (rec_track.person_id = NoId /\ rec_track.stable_id_hits = 0)
       /\ rec_track.person_id # NoId =>
             Now - rec_call.confirmed_ts <= identity_hold_seconds

\* an identity kept through a run without embedding, 0.9 s after its confirmation
C12_Witness ==
    /\ RunOnKnownTrack
    /\ ~rec_call.out.emb
    /\ rec_track.person_id = rec_call.tr.person_id
    /\ Now - rec_call.confirmed_ts = 90

\* C13: a known track P whose recognition run matches another id Q with
\* score >= similarity_threshold + borderline_margin leaves the run as Q.
C13_ClearFlipReplaces ==
    (/\ RunOnKnownTrack
     /\ rec_call.out.emb
     /\ rec_call.out.id # NoId
     /\ rec_call.out.id # rec_call.tr.person_id
     /\ rec_call.out.score >= similarity_threshold + borderline_margin)
       => rec_track.person_id = rec_call.out.id

\* C14: a track stably identified as e42 at 0.80 that gets one recognition whose
\* best match is e99 at 0.55 is still e42 after it, and its stable_id_hits is not
\* increased.
C14_FlickerRejected ==
    (/\ rec_call.made
     /\ rec_call.tr.person_id = "e42"
     /\ rec_call.tr.stable_id_hits >= stable_id_confirmations
     /\ rec_call.tr.similarity = 80
     /\ rec_call.out = [emb |-> TRUE, id |-> "e99", score |-> 55])
       => /\ rec_track.person_id = "e42"
          /\ rec_track.stable_id_hits <= rec_call.tr.stable_id_hits

(***************************************************************************)
(* Claims on TrackerManager.apply_detections (checked under SpecTracker)   *)
(***************************************************************************)
\* C15: in one apply_detections call no detection is assigned to two tracks and
\* no track is updated by two detections; every valid detection either updates
\* exactly one existing track or spawns exactly one new track whose track_id was
\* never used before.
C15_OneToOne ==
    trk_call.made =>
       LET M == trk_call.matches
           S == trk_call.spawned
       IN /\ \A p, q \in M : p # q => (p[1] # q[1] /\ p[2] # q[2])
          /\ \A p, q \in S : p # q => (p[1] # q[1] /\ p[2] # q[2])
          /\ \A p \in M : /\ p[1] \in DOMAIN trk_call.before
                          /\ p[1] \in DOMAIN trk_call.after
                          /\ trk_call.after[p[1]].bbox = trk_call.valid[p[2]]
          /\ \A p \in S : /\ p[1] \notin trk_call.used_before
                          /\ p[1] \notin DOMAIN trk_call.before
                          /\ p[1] \in DOMAIN trk_call.after
                          /\ trk_call.after[p[1]].bbox = trk_call.valid[p[2]]
          /\ \A j \in DOMAIN trk_call.valid :
                Cardinality({p \in M : p[2] = j}) + Cardinality({p \in S : p[2] = j}) = 1

\* a call with two tracks and two detections: one detection updates a track, the
\* other spawns a new one
C15_Witness ==
    /\ trk_call.made
    /\ Cardinality(DOMAIN trk_call.before) = 2
    /\ Len(trk_call.valid) = 2
    /\ Cardinality(trk_call.matches) = 1
    /\ Cardinality(trk_call.spawned) = 1

\* a detection matched weakly: IoU below the clear threshold, or center jump above
\* the clear ratio times the larger box dimension
C16_Weak(tbox, dbox) ==
    \/ 100 * BoxInter(tbox, dbox) < track_known_reacquire_clear_iou * BoxUnion(tbox, dbox)
    \/ 100 * CenterDist2(tbox, dbox)
          > 2 * track_known_reacquire_clear_center_ratio * MaxDim(tbox, dbox)

\* C16: a known track matched to a detection with IoU below
\* track_known_reacquire_clear_iou, or with a center jump above
\* track_known_reacquire_clear_center_ratio times the larger box dimension, leaves
\* the call Unknown (stable_id_hits 0, similarity 0) with a forced recognition
\* window; a known track matched more strongly keeps its identity.
C16_WeakMatchClears ==
    trk_call.made =>
       \A p \in trk_call.matches :
          LET b == trk_call.before[p[1]]
              a == trk_call.after[p[1]]
          IN b.tr.person_id # NoId =>
                IF C16_Weak(b.bbox, trk_call.valid[p[2]])
                   THEN /\ a.tr.person_id = NoId
                        /\ a.tr.stable_id_hits = 0
                        /\ a.tr.similarity = 0
                        /\ a.tr.force_recognition_until_ts >= Now + reacquire_window
                   ELSE a.tr = b.tr

\* a known track cleared by a center jump alone, and a known track that kept its
\* identity, were both seen
C16_Witness ==
    /\ trk_call.made
    /\ \E p \in trk_call.matches :
          LET b == trk_call.before[p[1]]
              d == trk_call.valid[p[2]]
          IN /\ b.tr.person_id # NoId
             /\ 100 * BoxInter(b.bbox, d) >= track_known_reacquire_clear_iou * BoxUnion(b.bbox, d)
             /\ C16_Weak(b.bbox, d)
             /\ trk_call.after[p[1]].tr.person_id = NoId

(***************************************************************************)
(* Claim on DBWriter.stop (checked under SpecWriter)                       *)
(***************************************************************************)
\* C20: when stop is called while jobs are queued and write_fn completes
\* promptly, every job accepted by enqueue before stop has been passed to
\* write_fn when the worker loop ends.
C20_StopDrainsQueue ==
    wr_pc = "ended" => \A i \in DOMAIN wr_accepted :
                          \E k \in DOMAIN wr_written : wr_written[k] = wr_accepted[i]

(***************************************************************************)
(* Claim on AdaptiveScheduler.update (checked under SpecScheduler)         *)
(***************************************************************************)
\* C17: after every update the mode is BURST iff now < burst_until_ts; otherwise
\* it is NORMAL when motion_active or tracks_present holds or
\* now - last_activity_ts < idle_seconds, and IDLE only when there is no activity
\* and idle_seconds have passed since the last activity. Without a burst event
\* the scheduler leaves BURST at the first update at or after burst_until_ts.
C17_ModeAfterUpdate ==
    sch_call.kind = "update" =>
       LET active == sch_call.motion_active \/ sch_call.tracks_present
           recent == Now - sch_call.pre.last_activity_ts < idle_seconds
       IN /\ sch_state.mode = "burst" <=> Now < sch_state.burst_until_ts
          /\ sch_state.mode # "burst" =>
                sch_state.mode = (IF active \/ recent THEN "normal" ELSE "idle")
          /\ (~sch_call.event /\ Now >= sch_call.pre.burst_until_ts) =>
                sch_state.mode # "burst"

\* an update that found the scheduler in BURST after burst_until_ts, without
\* activity, less than idle_seconds after the last activity: it left it NORMAL
C17_Witness ==
    /\ sch_call.kind = "update"
    /\ sch_call.pre.mode = "burst"
    /\ ~sch_call.event
    /\ ~sch_call.motion_active
    /\ ~sch_call.tracks_present
    /\ Now >= sch_call.pre.burst_until_ts
    /\ Now - sch_call.pre.last_activity_ts < idle_seconds
    /\ sch_state.mode = "normal"

(***************************************************************************)
(* Claims on the long-poll of the voice-event log (checked under           *)
(* SpecVoiceReader)                                                        *)
(***************************************************************************)
\* what a finished get_voice_events call handed back: only events newer than
\* after_seq, in increasing seq order, at most limit of them; a newer latest_seq
\* comes with at least one event; a long-poll comes back empty only at its deadline
C11_ReturnedEvents ==
    reader_result.returned =>
       LET ev == reader_result.events
       IN /\ \A i \in DOMAIN ev : ev[i] > reader_result.after_seq
          /\ \A i, j \in DOMAIN ev : i < j => ev[i] < ev[j]
          /\ Len(ev) <= reader_result.limit
          /\ reader_result.latest_seq > reader_result.after_seq => ev # <<>>
          /\ (reader_result.wait_ms > 0 /\ ev = <<>>) =>
                (reader_result.expired /\ reader_result.latest_seq <= reader_result.after_seq)
          /\ reader_result.wait_ms = 0 => ~reader_result.waited

\* the reader never sleeps through a push: while it is inside wait() and the seq
\* it waits for is already there, the publisher of that seq still holds the lock
\* and has the notification ahead of it
C11_NoMissedWakeup ==
    (reader.pc = "waiting" /\ voice_seq[reader.key] > reader.after_seq) =>
       \E t \in VoiceThreads : voice_lock = t /\ voice_pc[t] = "appended"

\* a call in progress whose company has a seq above after_seq returns an event
C11_WakesOnPush ==
    (reader.pc # "idle" /\ voice_seq[reader.key] > reader.after_seq)
       ~> (reader_result.returned /\ reader_result.events # <<>>)

\* a call in progress whose deadline has passed returns
C11_ReturnsAtDeadline ==
    (reader.pc # "idle" /\ reader.expired) ~> reader_result.returned

\* C11: get_voice_events with wait_ms > 0 returns as soon as the company's latest
\* seq exceeds after_seq (a push for that company during the wait wakes the reader,
\* which returns the new event) and otherwise returns once wait_ms has elapsed with
\* an empty list; the events returned have seq > after_seq, are in increasing seq
\* order and number at most limit.
C11_LongPoll ==
    /\ [](C11_ReturnedEvents /\ C11_NoMissedWakeup)
    /\ C11_WakesOnPush
    /\ C11_ReturnsAtDeadline

\* a long-poll that slept, was woken by a push before its deadline and returned it
C11_Witness ==
    /\ reader_result.returned
    /\ reader_result.waited
    /\ ~reader_result.expired
    /\ reader_result.events # <<>>

(***************************************************************************)
(* Claims on the job queues (checked under SpecQueues and SpecErp)         *)
(***************************************************************************)
\* jobs the DB writer thread has taken from its queue, in order
WriterHanded == wr_written \o (IF wr_pc = "write" THEN <<wr_job>> ELSE <<>>)

\* an enqueue call that found the queue q full returned False and left q_after = q
RejectsNewest(call, q, q_after, accepted_after, maxsize) ==
    Len(q) >= maxsize =>
       /\ ~call.ok
       /\ q_after = q
       /\ \A i \in DOMAIN accepted_after : accepted_after[i] # call.job

\* an enqueue call with room in the queue put its job at the tail
AcceptsAtTail(call, q, q_after, maxsize) ==
    (Len(q) < maxsize /\ ~call.stopped) => call.ok /\ q_after = Append(q, call.job)

C21_EnqueueStep ==
    /\ wr_submitted' # wr_submitted =>
          /\ RejectsNewest(wr_call', wr_q, wr_q', wr_accepted', max_queue)
          /\ AcceptsAtTail(wr_call', wr_q, wr_q', max_queue)
    /\ erp_submitted' # erp_submitted =>
          /\ RejectsNewest(erp_call', erp_q, erp_q', erp_accepted', erp_maxsize)
          /\ AcceptsAtTail(erp_call', erp_q, erp_q', erp_maxsize)

\* an enqueue call can always be made and returns in one step, whatever the queue holds
C21_NeverBlocks ==
    /\ wr_submitted < MaxJobs => ENABLED enqueue(wr_submitted + 1)
    /\ erp_submitted < MaxErpJobs => ENABLED erp_enqueue(erp_submitted + 1)

C21_QueueState ==
    /\ Len(wr_q) <= max_queue
    /\ Len(erp_q) <= erp_maxsize
    /\ NoDup(WriterHanded) /\ IsPrefix(WriterHanded, wr_accepted)
    /\ NoDup(erp_handed) /\ IsPrefix(erp_handed, erp_accepted)
    /\ wr_accepted = WriterHanded \o wr_q
    /\ erp_accepted = erp_handed \o erp_q

\* C21: DBWriter.enqueue and ERPPushQueue.enqueue never block; on a full queue
\* they return False, the new job is the one rejected and the queued jobs are
\* unchanged; the queue length never exceeds its bound; accepted jobs reach the
\* worker in FIFO order, each at most once.
C21_NonBlockingBoundedFifo ==
    [](C21_QueueState /\ C21_NeverBlocks) /\ [][C21_EnqueueStep]_vars

\* both queues have refused a job while full and both workers have taken two jobs
C21_Witness ==
    /\ wr_call.job # 0 /\ ~wr_call.ok /\ Len(wr_call.before) = max_queue
    /\ erp_call.job # 0 /\ ~erp_call.ok /\ Len(erp_call.before) = erp_maxsize
    /\ Len(WriterHanded) >= 2
    /\ Len(erp_handed) >= 2

\* the job the ERP worker is working on, 0 when it waits for a job
ErpCurrent == IF erp_pc = "get" THEN 0 ELSE erp_job

\* the worker is done with job j
ErpFinished(j) == (\E i \in DOMAIN erp_handed : erp_handed[i] = j) /\ ErpCurrent # j

ErpSucceeded(j) == \E i \in DOMAIN erp_posts[j] : erp_posts[j][i]

C22_PerJob(j) ==
    /\ Len(erp_posts[j]) <= max_retries
    \* no call after the first success
    /\ \A i \in DOMAIN erp_posts[j] : erp_posts[j][i] => i = Len(erp_posts[j])
    /\ erp_errors[j] <= 1
    /\ erp_errors[j] = 1 => ErpFinished(j)
    /\ ErpFinished(j) =>
          /\ erp_errors[j] = 1 <=> ~ErpSucceeded(j)
          /\ ~ErpSucceeded(j) => Len(erp_posts[j]) = max_retries

\* after the last attempt, and the on_error call if any, the worker is back at the
\* head of its loop with the remaining jobs still queued
C22_GoesOn ==
    (erp_pc = "report" /\ erp_pc' # erp_pc) => erp_pc' = "get" /\ erp_q' = erp_q

\* C22: for each ERPPushJob the worker calls manual_attendance at most max_retries
\* times, stops at the first success, and calls on_error exactly once if and only
\* if every attempt failed; after either outcome it goes on to the next queued job.
C22_RetryThenReport ==
    [](\A j \in 1..MaxErpJobs : C22_PerJob(j)) /\ [][C22_GoesOn]_vars

\* job 1 failed in every attempt and was reported, job 2 was taken afterwards and
\* succeeded at its second attempt
C22_Witness ==
    /\ erp_posts[1] = <<FALSE, FALSE, FALSE>> /\ erp_errors[1] = 1
    /\ erp_posts[2] = <<FALSE, TRUE>> /\ erp_errors[2] = 0
    /\ ErpFinished(2)
(***************************************************************************)
(* Claim on failures inside the workers (checked under SpecWorkers)        *)
(***************************************************************************)
\* a write_fn call that raises: the writer thread is back at its loop test and
\* nothing but the thread's own position and the write log has changed
C23_WriteFailureStep ==
    wr_failed' # wr_failed =>
       /\ wr_pc' = "test"
       /\ UNCHANGED <<wr_q, wr_stop, wr_accepted, wr_submitted, wr_call>>

\* a detect_fn call that raises: the result of the camera has the next seq and no
\* detections, the arbiter thread waits for the next pending camera and the
\* pending cameras are still pending
C23_DetectFailureStep ==
    \A c \in ArbCameras :
       (results'[c] # results[c] /\ results'[c].raised) =>
          /\ results'[c].seq = results[c].seq + 1
          /\ results'[c].seq = seq'[c]
          /\ results'[c].dets = 0
          /\ worker'.pc = "wait"
          /\ IsPrefix(pending_rr, pending_rr')
          /\ UNCHANGED <<frames, submitted>>

C23_WorkersAlive == wr_pc # "ended" /\ worker.pc \in {"wait", "detect"}

\* every accepted job is passed to write_fn, whatever happened to the jobs before it
C23_FollowingJobsWritten ==
    \A j \in 1..WorkerJobs :
       (\E i \in DOMAIN wr_accepted : wr_accepted[i] = j)
          ~> (\E i \in DOMAIN wr_written : wr_written[i] = j)

\* every camera with a frame queued gets that frame, or a newer one, detected
C23_PendingCamerasServed ==
    \A c \in WorkerCameras : (frames[c] # <<>>) ~> (results[c].seq = picked[c] /\ picked[c] > 0 /\ frames[c] = <<>>)

\* C23: an exception raised while a background worker handles one item never
\* stops that worker: after a failing write_fn the DB writer runs on and writes
\* the following jobs; after a failing detect_fn the arbiter publishes a result
\* with the next seq and no detections and continues with the next pending camera.
C23_WorkersSurviveFailures ==
    /\ []C23_WorkersAlive
    /\ [][C23_WriteFailureStep /\ C23_DetectFailureStep]_vars
    /\ C23_FollowingJobsWritten
    /\ C23_PendingCamerasServed

\* write_fn raised on job 1 and job 2 was written after it; detect_fn raised on
\* camA's frame and camB got its result after it
C23_Witness ==
    /\ 1 \in wr_failed
    /\ Len(wr_written) >= 2 /\ wr_written[2] = 2 /\ 2 \notin wr_failed
    /\ results["camA"].raised /\ results["camA"].seq = 1
    /\ results["camB"].seq = 1 /\ ~results["camB"].raised /\ results["camB"].dets = 1
(***************************************************************************)
(* Claim on StreamClientManager (checked under SpecStreamClients)          *)
(***************************************************************************)
\* viewers of camera cam registered with a stream type that stands for type t
ViewersOfType(cam, t) ==
    SumOver([s \in StreamTypeInputs |->
                IF normalize_stream_type(s) = t THEN scm_viewers[cam][s] ELSE 0],
            StreamTypeInputs)

\* inc or dec has been called for the camera
ScmCalled(cam) == rt_enabled[cam] # "unset"

C24_EnabledIffViewer(cam) == is_attendance_enabled(cam) <=> ViewersOf(cam) > 0

\* attendance > headcount > ot among the registered viewers; rest is the type of
\* a camera without attendance and headcount viewers
C24_Priority(cam, rest) ==
    get_stream_type(cam) =
       IF ViewersOfType(cam, STREAM_TYPE_ATTENDANCE) > 0 THEN STREAM_TYPE_ATTENDANCE
       ELSE IF ViewersOfType(cam, STREAM_TYPE_HEADCOUNT) > 0 THEN STREAM_TYPE_HEADCOUNT
       ELSE rest

MarkHandled(j) == \E i \in DOMAIN wr_written : wr_written[i] = j

\* create_attendance returned for job j, with event_type attendance
WrittenAsAttendance(j) ==
    \E i \in DOMAIN mk_backend :
       mk_backend[i].job = j /\ mk_backend[i].event_type = "attendance"

C27_StaleResultsSkipped ==
    /\ \A i \in DOMAIN age_applied :
          age_applied[i].age <= max_detection_result_age_seconds
    /\ \A i, j \in DOMAIN age_applied :
          i # j => age_applied[i].seq # age_applied[j].seq

\* the refresh period the claim gives a track
C28_Period(tr) ==
    IF tr.person_id = NoId THEN embed_refresh_seconds_unknown ELSE embed_refresh_seconds

\* C28: outside a forced recognition window and outside IDLE mode,
\* should_run_recognition allows a recognition of an Unknown track as soon as
\* now - last_embed_ts >= embed_refresh_seconds_unknown, and of a known track as
\* soon as now - last_embed_ts >= embed_refresh_seconds; in IDLE mode without a
\* forced window it never allows recognition.
C28_RefreshByIdentity ==
    srr_call.made =>
       LET tr == srr_call.tr
           forced == Now < tr.force_recognition_until_ts
       IN /\ (~forced /\ srr_call.mode # "idle"
                 /\ Now - tr.last_embed_ts >= C28_Period(tr)) => srr_call.allowed
          /\ (~forced /\ srr_call.mode = "idle") => ~srr_call.allowed

\* C29: with a fixed gallery and embedding, the gallery match returns the arg-max
\* entry with the maximum similarity, and returns it as a known identity only if
\* that top-1 similarity exceeds the best similarity of every gallery entry of a
\* different employee by at least distinct_sim_margin.
C29_TopOneByMargin ==
    (mt_call.made /\ mt_call.gallery # <<>>) =>
       LET sims == Sims(mt_call.gallery, mt_call.emb)
           r == mt_call.result
       IN /\ \A i \in DOMAIN sims : sims[i] <= r.score
          /\ r.person_id # NoId =>
                /\ \E i \in DOMAIN sims :
                      sims[i] = r.score /\ mt_call.gallery[i].emp = r.person_id
                /\ \A i \in DOMAIN sims :
                      mt_call.gallery[i].emp # r.person_id =>
                         r.score - sims[i] >= distinct_sim_margin

\* an update of the MotionGate: what the claim allows it to do with the flag
C30_UpdateStep ==
    mg_calls' # mg_calls =>
       LET score == mg_call'.score
           cooled == mg_now' - mg_call.changed_at >= motion_cooldown_seconds
       IN /\ (~mg_state.active /\ mg_state'.active) => (score >= motion_threshold /\ cooled)
          /\ (mg_state.active /\ ~mg_state'.active) =>
                (score * 100 <= motion_threshold * motion_hysteresis_ratio /\ cooled)
          /\ mg_call'.active = mg_state'.active

\* C30: over any trace of motion scores, the active flag changes from off to on
\* only on an update with score >= threshold, from on to off only on an update
\* with score <= threshold x hysteresis_ratio, and in both cases only if at least
\* cooldown_seconds have elapsed since the previous change; on every other update
\* the flag is unchanged.
C30_HysteresisAndCooldown == [][C30_UpdateStep]_vars

\* the flag went on, an update inside the cooldown with a score of 0 left it on,
\* and the last update, after the cooldown, switched it off
C30_Witness ==
    /\ mg_call.made
    /\ mg_call.pre.active
    /\ ~mg_state.active
    /\ mg_call.pre.last_score <= off_th
    /\ mg_calls = MaxMotionCalls

(***************************************************************************)
(* Claims on the life of the workers (SpecViewers, SpecShutdown)           *)
(***************************************************************************)
\* C31: under any interleaving of RecognitionWorker.start and stop calls for one
\* camera, at most one recognition thread runs process_frame for that camera at
\* any time.
C31_OneRecognitionThread ==
    Cardinality({t \in RwThreads : rw_thr[t] = "frame"}) <= 1

\* ERP jobs the queue accepted and the worker has not yet pushed
ErpUnpushed == {j \in 1..MaxErpJobs : (\E i \in DOMAIN erp_accepted : erp_accepted[i] = j)
                                        /\ erp_posts[j] = <<>>}

\* C32: system shutdown stops the workers in the order enroller, recognition
\* workers, HLS writers, capture, attendance runtime, and when it returns no
\* recognition worker, DB writer worker or ERP push worker is still running, the
\* ERP jobs queued before shutdown having been pushed.
C32_ShutdownStopsWorkers ==
    sd_pc = "returned" =>
       /\ sd_order = <<"enroller", "rec_worker", "hls", "capture", "attendance">>
       /\ LiveThreads = {}
       /\ wr_pc = "ended"
       /\ erp_accepted # <<>> => erp_pc = "ended"
       /\ ErpUnpushed = {}

\* no viewer is inside a start or a stop call
C38_NoCallInProgress ==
    \A v \in Viewers : rw_pc[v] \in {"out", "viewing"}

\* C38: whenever at least one viewer of the camera's recognition stream is
\* registered and has finished its start call, the camera's recognition worker
\* is running; the worker is never left stopped while a viewer remains.
C38_WorkerRunsWhileViewed ==
    ((\E v \in Viewers : rw_pc[v] = "viewing") /\ C38_NoCallInProgress) =>
       (rw_running /\ LiveThreads # {})

(***************************************************************************)
(* Claims on verification, marks and identities (SpecAttendance,           *)
(* SpecRecognizer, SpecTracker, SpecArbiter)                               *)
(***************************************************************************)

\* the verification fields of a track as _reset_verification leaves them
VerifyCleared(tr) ==
    /\ tr.verify_target_id = NoId
    /\ tr.verify_samples = <<>>
    /\ tr.verify_started_ts = 0

\* C33: when a track under verification becomes Unknown in the per-frame
\* pipeline its verification state (target, samples, start time) is reset: once
\* the frame's attendance loop is over, no Unknown track still carries a target
\* or samples that a later verification outcome could count.
C33_UnknownResetsVerification ==
    \A c \in AttCameras :
       att_pc[c] = IdlePc =>
          \A i \in DOMAIN tracks[c] :
             tracks[c][i].person_id = NoId => VerifyCleared(tracks[c][i])

\* the latest frame called consider for the track
C34_ConsiderCalled == rec_call.made /\ rec_call.called

\* the track has a verification in progress
C34_Open == rec_track.verify_target_id # NoId

\* a consider call on a verification open for more than burst_seconds + 2.0
\* resets the verification and returns no job
C34_TimeoutAbandons ==
    (C34_ConsiderCalled /\ rec_call.open
        /\ rec_call.age > burst_seconds + verify_timeout_extra) =>
       /\ rec_call.reason = "verify_timeout"
       /\ rec_call.job = NoJob
       /\ VerifyCleared(rec_track)

\* C34: a verification still open more than burst_seconds + 2.0 after
\* verify_started_ts is abandoned by the next consider call for the track (state
\* reset, no job, even when that call's sample completes the required number);
\* hence, as long as consider keeps being called for the track, every started
\* verification ends.
C34_TimeoutEndsVerification ==
    /\ []C34_TimeoutAbandons
    /\ ([]<>C34_ConsiderCalled) => (C34_Open ~> ~C34_Open)

\* a timeout that discarded a complete set of samples
C34_Witness ==
    /\ C34_ConsiderCalled /\ rec_call.open
    /\ rec_call.reason = "verify_timeout"
    /\ rec_call.samples >= verification_samples

\* the latest run matched a known track to another employee with a score that
\* passes the decision threshold of a flip (strict_thr) and stays below
\* similarity_threshold + borderline_margin
C35_WeakFlip ==
    /\ rec_call.made
    /\ rec_call.tr.person_id # NoId
    /\ rec_call.out.emb
    /\ rec_call.out.id # NoId
    /\ rec_call.out.id # rec_call.tr.person_id
    /\ rec_call.out.score >= StrictThr(LegacyFastCfg)
    /\ rec_call.out.score < similarity_threshold + borderline_margin

\* C35: a recognition that matches a track known as P to a different id Q with
\* a score that passes the decision threshold but is below similarity_threshold
\* + borderline_margin demotes the track to Unknown with stable_id_hits = 0 (it
\* keeps neither P nor adopts Q) and forces BURST with reason identity_flip.
C35_WeakFlipDemotes ==
    C35_WeakFlip =>
       /\ rec_track.person_id = NoId
       /\ rec_track.stable_id_hits = 0
       /\ rec_sched.mode = "burst"
       /\ rec_sched.burst_until_ts >= Now + burst_seconds
       /\ \E i \in DOMAIN rec_call.reasons : rec_call.reasons[i] = "identity_flip"

\* a weak flip of a stably known track
C35_Witness ==
    /\ C35_WeakFlip
    /\ rec_call.tr.stable_id_hits >= 2
    /\ rec_track.person_id = NoId

\* the consider call of the frame in progress on camera c returned a job
C36_JobReturned(c) == decision[c].called /\ decision[c].job # NoJob

\* C36: last_marked[key] is stamped by mark_enqueued only after DBWriter.enqueue
\* returned True for a job of that key: a job rejected by the anti-spoof gate,
\* dropped by the final identity check or refused by a full writer queue does
\* not reach the writer and leaves last_marked unchanged.
C36_MarkOnlyAfterEnqueue ==
    [][\A c \in AttCameras :
          (att_pc[c].phase = "att" /\ att_pc'[c] # att_pc[c] /\ C36_JobReturned(c)') =>
             IF decision'[c].enqueued
                THEN /\ dbq' = Append(dbq, decision'[c].job.employee_id)
                     /\ last_marked' = [last_marked EXCEPT
                                           ![decision'[c].job.employee_id] = frame_now[c]]
                ELSE dbq' = dbq /\ last_marked' = last_marked]_vars

\* a job that passed every gate and was refused by the full writer queue
C36_Witness ==
    \E c \in AttCameras :
       /\ C36_JobReturned(c)
       /\ decision[c].gates = "pass"
       /\ ~decision[c].enqueued
       /\ Len(dbq) = NarrowQueue
       /\ \E i \in DOMAIN tracks[c] :
             tracks[c][i].person_id = decision[c].job.employee_id
       /\ last_marked[decision[c].job.employee_id] # Now

\* C37: every job process_frame passes to DBWriter.enqueue has employee_id
\* equal to the person_id the track carries at that moment, also when the job
\* ends a verification whose target was fixed several recognitions earlier; a
\* job for any other id is discarded without a mark.
C37_JobMatchesTrack ==
    [][\A c \in AttCameras :
          (att_pc[c].phase = "att" /\ att_pc'[c] # att_pc[c] /\ C36_JobReturned(c)') =>
             LET person == tracks'[c][att_pc[c].idx].person_id
                 emp == decision'[c].job.employee_id
             IN IF person = emp
                   THEN dbq' # dbq => dbq' = Append(dbq, person)
                   ELSE /\ ~decision'[c].enqueued
                        /\ dbq' = dbq
                        /\ last_marked' = last_marked]_vars

\* a verification for e42 that ended with a job while the track is e99: the job
\* passed the other gates and was discarded
C37_Witness ==
    \E c \in AttCameras :
       /\ C36_JobReturned(c)
       /\ decision[c].in_verification
       /\ decision[c].gates = "pass"
       /\ decision[c].job.employee_id = decision[c].target
       /\ Len(tracks[c]) = 1
       /\ tracks[c][1].person_id \notin {NoId, decision[c].job.employee_id}
       /\ ~decision[c].enqueued
       /\ dbq = <<>>

\* C39: whenever the GPUArbiter lock is free, the pending round-robin FIFO
\* holds each camera at most once, holds the same cameras as the pending set,
\* and these are exactly the cameras whose frame queue is non-empty; each
\* per-camera queue holds at most queue_size frames.
C39_PendingMatchesQueues ==
    /\ \A i, j \in DOMAIN pending_rr : i # j => pending_rr[i] # pending_rr[j]
    /\ {pending_rr[i] : i \in DOMAIN pending_rr} = pending_set
    /\ pending_set = {c \in ArbCameras : frames[c] # <<>>}
    /\ \A c \in ArbCameras : Len(frames[c]) <= queue_size

\* a camera that submitted again while its frame is in detection, queued behind
\* another camera whose ring is full
C39_Witness ==
    /\ worker.pc = "detect"
    /\ frames[worker.cid] # <<>>
    /\ Len(pending_rr) >= 2
    /\ pending_rr[Len(pending_rr)] = worker.cid
    /\ \E c \in ArbCameras : Len(frames[c]) = queue_size /\ dropped[c] > 0

\* the identity fields of a track agree: Unknown with no stable hits, no
\* last_known_ts and no last_known_bbox, or known with at least one stable hit
C40_IdentityFieldsAgree(tr) ==
    IF tr.person_id = NoId
       THEN tr.stable_id_hits = 0 /\ tr.last_known_ts = 0 /\ tr.last_known_bbox = NoBox
       ELSE tr.stable_id_hits >= 1

\* C40: for every track, after any sequence of TrackerManager.apply_detections
\* and Recognizer.update_tracks calls, person_id is none if and only if
\* stable_id_hits = 0: a known track has stable_id_hits >= 1, and a track that
\* became Unknown has stable_id_hits 0 and last_known_ts and last_known_bbox
\* cleared.
C40_UnknownIffNoStableHits ==
    \A c \in AttCameras : \A i \in DOMAIN tracks[c] :
       C40_IdentityFieldsAgree(tracks[c][i])

\* a track that was stably known and has been cleared by the tracker
C40_Witness ==
    \E c \in AttCameras : \E i \in DOMAIN tracks[c] :
       /\ tracks[c][i].person_id = NoId
       /\ tracks[c][i].last_identity_change_ts = Now
       /\ tracks[c][i].unknown_since_ts = Now
       /\ tracks[c][i].similarity = 0
       /\ tracks[c][i].last_embed_ts # 0
       /\ att_pc[c].phase = "rec"
       /\ frame_count[c] >= 3
====
